---- MODULE Spec2Model ----
(***************************************************************************)
(* Model of the Cem green-thread runtime: the cooperative scheduler       *)
(* (src/runtime/scheduler.c), its reactor registrations and the line I/O  *)
(* adapter (src/runtime/io.c).                                            *)
(*                                                                         *)
(* A strand is identified by its id (the Strand* of the code); 0 is NULL. *)
(* The ready queue and the blocked list are the code's singly linked      *)
(* lists threaded through the one `next` field of a strand.               *)
(***************************************************************************)
EXTENDS Integers, Sequences, FiniteSets, TLC

\* ------------------------------------------------------------------ bounds
MaxStrands == 3       \* strands spawned in one run
MaxQueueOps == 6      \* direct ready-queue calls in one run of SpecQueue
PayloadLen == 2       \* bytes of a write_line buffer (string + newline)
MaxGrowths == 2       \* growths of one C stack in one run of SpecStack
MaxReallocs == 1      \* times realloc moves the buffer of one read_line
MaxYields == 3        \* strand_yield calls of the strand of SpecYield
MaxCycles == 2        \* scheduler_shutdown calls the caller goes on after, in SpecApi

StrandIds == 1..MaxStrands
NULL == 0

\* File descriptors used by the I/O adapter (io.c:19-20).
STDIN_FILENO == 0
STDOUT_FILENO == 1

\* Maximum number of events taken from the reactor in one wait.
MAX_IO_EVENTS == 32

\* ------------------------------------------------------- entry functions
\* An entry function is the sequence of runtime calls it makes; the calls
\* are the ones the repository's test strands make.
Rec(v) == [op |-> "record", v |-> v, func |-> "", arg |-> 0]
Yield == [op |-> "yield", v |-> 0, func |-> "", arg |-> 0]
Push(f, a) == [op |-> "push_cleanup", v |-> 0, func |-> f, arg |-> a]
Pop == [op |-> "pop_cleanup", v |-> 0, func |-> "", arg |-> 0]
Update(a) == [op |-> "update_cleanup_arg", v |-> 0, func |-> "", arg |-> a]
WriteLineOp == [op |-> "write_line", v |-> 0, func |-> "", arg |-> 0]
ReadLineOp == [op |-> "read_line", v |-> 0, func |-> "", arg |-> 0]
SpawnOp(e) == [op |-> "spawn", v |-> 0, func |-> e, arg |-> 0]
ShutdownOp == [op |-> "shutdown", v |-> 0, func |-> "", arg |-> 0]
BlockReadOp(fd) == [op |-> "block_on_read", v |-> fd, func |-> "", arg |-> 0]
BlockWriteOp(fd) == [op |-> "block_on_write", v |-> fd, func |-> "", arg |-> 0]
TestYieldOp == [op |-> "test_yield", v |-> 0, func |-> "", arg |-> 0]
LocalsOp(n) == [op |-> "locals", v |-> n, func |-> "", arg |-> 0]

\* yielding_strand of test_scheduler_yield.c, with 0, 1, 2, ... calls of
\* strand_yield before it returns its stack.
YieldingStrand ==
    <<"yielding_strand_0", "yielding_strand_1", "yielding_strand_2",
      "yielding_strand_3", "yielding_strand_4", "yielding_strand_5">>

YieldsOf(e) == CHOOSE n \in 0..(Len(YieldingStrand) - 1) : YieldingStrand[n + 1] = e

EntryBody(e) ==
    CASE e = "strand_a" -> <<Rec(1), Yield, Rec(2)>>
      [] e \in {YieldingStrand[i] : i \in 1..Len(YieldingStrand)} ->
            [i \in 1..YieldsOf(e) |-> Yield]
      [] e = "strand_basic_cleanup" ->
            <<Push("cleanup_1", 0), Push("cleanup_2", 0), Push("cleanup_3", 0)>>
      [] e = "strand_cleanup_with_pop" ->
            <<Push("free", 1024), Pop, Push("free_resource", 0)>>
      [] e = "strand_test_update_cleanup" ->
            <<Push("cleanup_free_int", 42), Update(99)>>
      [] e = "simple_writer" -> <<WriteLineOp>>
      [] e = "echo_strand" -> <<WriteLineOp, ReadLineOp>>
      [] e = "spawner" -> <<SpawnOp("strand_test_update_cleanup"), Yield>>
      [] e = "strand_nested_update" ->
            <<Push("cleanup_1", 1), Push("cleanup_free_int", 42), Update(99)>>
      [] e = "strand_small_locals" -> <<LocalsOp(64)>>
      [] e = "strand_medium_locals" -> <<LocalsOp(1024)>>
      [] e = "strand_large_locals" -> <<LocalsOp(2048)>>
      [] e = "strand_xlarge_locals" -> <<LocalsOp(4096)>>
      [] e = "strand_huge_locals" -> <<LocalsOp(6 * 1024)>>
      [] e = "strand_test_yield" -> <<Rec(1), TestYieldOp, Rec(2)>>
      [] e = "strand_block_read" -> <<BlockReadOp(STDIN_FILENO)>>
      [] e = "strand_push_null" -> <<Push("cleanup_1", 1), Push("", 0)>>
      [] e = "strand_pop_empty" -> <<Pop>>
      [] e = "strand_update_empty" -> <<Update(99)>>
      [] e = "strand_block_read_bad_fd" -> <<Push("cleanup_1", 1), BlockReadOp(-1)>>
      [] e = "strand_block_write_bad_fd" -> <<BlockWriteOp(-1)>>
      [] e = "strand_guarded_writer" -> <<Push("cleanup_1", 1), WriteLineOp>>
      [] e = "strand_shutdown" ->
            <<Push("cleanup_1", 0), Push("cleanup_2", 0), Yield, ShutdownOp>>
      [] OTHER -> <<>>

\* The entry functions the caller passes to strand_spawn.
EntryFuncs ==
    {"strand_a", "strand_basic_cleanup", "strand_cleanup_with_pop",
     "simple_writer", "echo_strand", "spawner", "strand_nested_update",
     "strand_shutdown", "strand_guarded_writer"}

\* Entry functions that are the main strand of their program: the caller
\* spawns them first or not at all (test_io_echo.c).
MainEntryFuncs ==
    {"echo_strand", "strand_nested_update", "strand_shutdown",
     "strand_guarded_writer"}

\* ------------------------------------------------------------------ state
VARIABLES
    platform,               \* "kqueue" or "epoll": the reactor of the build
    pc,                     \* where control is
    scheduler_initialized,
    ready_queue_head, ready_queue_tail, blocked_list,
    current_strand, next_strand_id,
    live,                   \* the strands allocated and not yet freed
    state, stack, cleanup_handlers, blocked_fd, next, entry_func,
    ip,                     \* per strand: index of the next call of its entry
    local_stack,            \* per strand: the entry function's stack variable
    io_left,                \* per strand: unwritten bytes of the buffer in flight
    stack_meta,             \* per strand: usable_size, growth_count of its C stack
    subs,                   \* the reactor's registrations
    fd_ready,               \* the <<fd, filter>> pairs that are ready now
    io_initialized,         \* io.c: stdin and stdout were made non-blocking
    run_returned, run_result,
    error,                  \* the runtime_error message that ended the process
    execution_order,        \* the markers recorded by record()
    cleanup_log,            \* the cleanup handlers invoked, in order
    spawn_log,              \* the entry functions spawned and their stacks, in order
    queue_trace,            \* the direct ready_queue_push / _pop calls and results
    free_log,               \* the free_stack(non-NULL) and free(strand) calls, in order
    entry_returned,         \* per strand: whether its entry function returned, and what
    context,                \* per strand: the saved sp and x29 (stack tests)
    mem,                    \* the bytes written to the mapped stacks (stack tests)
    fault,                  \* the last SIGSEGV taken and what became of it
    stack_call,             \* the last stack call made directly and its result
    io_buf,                 \* per strand: the buffer write_line / read_line holds
    io_entry,               \* per strand: its cleanup list when that call began
    dispatch_count,         \* per strand: times the scheduler switched to it,
                            \* counted up to MaxYields + 2
    yield_count,            \* per strand: strand_yield calls it has made
    cycle,                  \* scheduler_shutdown calls the caller has returned from
    last_call               \* the last call made outside a strand and its result

sched_vars == <<scheduler_initialized, ready_queue_head, ready_queue_tail,
                blocked_list, current_strand, next_strand_id>>
strand_vars == <<live, state, stack, cleanup_handlers, blocked_fd, next,
                 entry_func, ip, local_stack, io_left, stack_meta>>
io_vars == <<subs, fd_ready>>
log_vars == <<execution_order, cleanup_log, spawn_log, queue_trace, entry_returned,
              free_log>>
cstack_vars == <<context, mem, fault, stack_call>>
api_vars == <<io_buf, io_entry, dispatch_count, yield_count, cycle, last_call>>
vars == <<platform, pc, sched_vars, strand_vars, io_vars, io_initialized,
          run_returned, run_result, error, log_vars, cstack_vars, api_vars>>

\* ------------------------------------------------------------ linked lists
\* The strands reached from h through the next field n, at most `fuel` of them.
RECURSIVE ListFrom(_, _, _)
ListFrom(h, n, fuel) ==
    IF h = NULL \/ fuel = 0 THEN <<>>
    ELSE <<h>> \o ListFrom(n[h], n, fuel - 1)

SeqToSet(q) == {q[i] : i \in 1..Len(q)}

\* The queue fields of the scheduler and the link fields, as one value.
Links == [head |-> ready_queue_head, tail |-> ready_queue_tail,
          blocked |-> blocked_list, next |-> next]

ReadySeq == ListFrom(ready_queue_head, next, MaxStrands + 1)
BlockedSeq == ListFrom(blocked_list, next, MaxStrands + 1)
ReadySet == SeqToSet(ReadySeq)
BlockedSet == SeqToSet(BlockedSeq)

ReadyQueuePushDrops(q, s) == q

ReadyQueuePushHead(q, s) ==
    IF s = NULL THEN q
    ELSE IF q.tail # NULL
         THEN [q EXCEPT !.next = [q.next EXCEPT ![s] = q.head], !.head = s]
         ELSE [q EXCEPT !.next = [q.next EXCEPT ![s] = NULL],
                        !.head = s, !.tail = s]

ready_queue_push(q, s) ==
    IF s = NULL THEN q
    ELSE LET n1 == [q.next EXCEPT ![s] = NULL] IN
         IF q.tail # NULL
         THEN [q EXCEPT !.next = [n1 EXCEPT ![q.tail] = s], !.tail = s]
         ELSE [q EXCEPT !.next = n1, !.head = s, !.tail = s]

\* The queue after a pop; the strand popped is the old head (NULL if none).
ready_queue_pop(q) ==
    IF q.head = NULL THEN q
    ELSE LET s == q.head
             h1 == q.next[s]
         IN [q EXCEPT !.head = h1,
                      !.tail = IF h1 = NULL THEN NULL ELSE q.tail,
                      !.next = [q.next EXCEPT ![s] = NULL]]

\* The strand ready_queue_pop returns.
PoppedTail(q) == q.tail

PoppedStrand(q) == q.head

ready_queue_is_empty == ready_queue_head = NULL

BlockedListAddDrops(q, s) == q

blocked_list_add(q, s) ==
    IF s = NULL THEN q
    ELSE [q EXCEPT !.next = [q.next EXCEPT ![s] = q.blocked], !.blocked = s]

blocked_list_remove(q, s) ==
    IF s = NULL \/ q.blocked = NULL THEN q
    ELSE IF q.blocked = s
         THEN [q EXCEPT !.blocked = q.next[s],
                        !.next = [q.next EXCEPT ![s] = NULL]]
         ELSE LET chain == ListFrom(q.blocked, q.next, MaxStrands + 1)
                  at == {i \in 2..Len(chain) : chain[i] = s}
              IN IF at = {} THEN q
                 ELSE LET prev == chain[(CHOOSE i \in at : TRUE) - 1]
                      IN [q EXCEPT !.next = [q.next EXCEPT ![prev] = q.next[s],
                                                           ![s] = NULL]]

\* Write the queue fields back.
SetLinks(q) ==
    /\ ready_queue_head' = q.head
    /\ ready_queue_tail' = q.tail
    /\ blocked_list' = q.blocked
    /\ next' = q.next

\* ---------------------------------------------------------------- C stacks
\* The stack code is modelled as the ARM64 build runs it: context.h accepts
\* no other build.
CEM_INITIAL_STACK_SIZE == 4096
CEM_MIN_FREE_STACK == 8192
CEM_STACK_GROWTH_THRESHOLD_PERCENT == 75
CEM_MAX_STACK_SIZE == 1024 * 1024

\* The largest size_t. Sizes this large are only ever compared with
\* CEM_MAX_STACK_SIZE, so the model holds them in its own integer width.
SIZE_MAX == 2147483647

\* stack_get_page_size, taken to be the DEFAULT_PAGE_SIZE of the platform:
\* 16384 where the build uses kqueue, 4096 where it uses epoll.
stack_get_page_size == IF platform = "kqueue" THEN 16384 ELSE 4096

\* Bytes of C stack a suspended strand holds below its stack top.
SuspendedFrameBytes == 512

\* Bytes the kernel pushes on the interrupted stack to deliver a signal (the
\* handler is installed without SA_ONSTACK).
SignalFrameBytes == 1024

\* mmap(NULL, ...): anonymous mappings are placed in an area of the address
\* space in slots wide enough for the largest stack and its guard page. A new
\* mapping overlaps no live one and reads as zeroes.
MAP_FAILED == -1
MmapArea == 16777216
MmapStride == 2 * CEM_MAX_STACK_SIZE
MmapSlots == 0..MaxStrands
SlotBase(k) == MmapArea + k * MmapStride

\* A NULL StackMetadata*.
NoMeta == [base |-> 0, usable_base |-> 0, total_size |-> 0, usable_size |-> 0,
           guard_page_size |-> 0, growth_count |-> 0, guard_hit |-> FALSE]

\* The bases mmap can return while the stacks of `metas` are mapped.
FreeBases(metas) ==
    {SlotBase(k) : k \in MmapSlots} \
       {metas[s].base : s \in {x \in DOMAIN metas : metas[x] # NoMeta}}

\* The place the kernel picks when it maps at the lowest free address.
MmapFirstFit(metas) ==
    IF FreeBases(metas) = {} THEN MAP_FAILED
    ELSE CHOOSE b \in FreeBases(metas) : \A c \in FreeBases(metas) : b <= c

\* What mmap may return: that place, or MAP_FAILED.
mmap(metas) == {MmapFirstFit(metas), MAP_FAILED}

RoundUpUnrounded(size) == size

\* ((size + page_size - 1) / page_size) * page_size
RoundUpToPage(size) ==
    ((size + stack_get_page_size - 1) \div stack_get_page_size) * stack_get_page_size

\* stack_alloc; base is what mmap returned (MAP_FAILED also stands for a
\* failed malloc of the metadata and a failed mprotect: all return NULL).
stack_alloc(initial_size, base) ==
    LET size == IF initial_size < CEM_INITIAL_STACK_SIZE
                THEN CEM_INITIAL_STACK_SIZE ELSE initial_size
        usable == RoundUpToPage(size)
    IN IF size > CEM_MAX_STACK_SIZE THEN NoMeta
       ELSE IF base = MAP_FAILED THEN NoMeta
       ELSE [base |-> base,
             usable_base |-> base + stack_get_page_size,
             total_size |-> usable + stack_get_page_size,
             usable_size |-> usable,
             guard_page_size |-> stack_get_page_size,
             growth_count |-> 0,
             guard_hit |-> FALSE]

StackTop(meta) == meta.usable_base + meta.usable_size

\* cem_makecontext on ARM64: sp and x29 start at the 16-byte aligned top.
cem_makecontext(meta) ==
    LET stack_top == StackTop(meta) - (StackTop(meta) % 16)
    IN [sp |-> stack_top, x29 |-> stack_top]

StackGetUsedUnchecked(meta, current_sp) == StackTop(meta) - current_sp

stack_get_used(meta, current_sp) ==
    IF current_sp > StackTop(meta) \/ current_sp < meta.usable_base
    THEN meta.usable_size
    ELSE StackTop(meta) - current_sp

stack_get_free(meta, current_sp) ==
    LET used == stack_get_used(meta, current_sp)
    IN IF used >= meta.usable_size THEN 0 ELSE meta.usable_size - used

\* Memory is kept as the bytes that were written; every other mapped byte
\* reads as zero.
ReadByte(memory, a) == IF a \in DOMAIN memory THEN memory[a] ELSE 0

\* munmap of a stack: its bytes are gone.
Unmap(memory, meta) ==
    LET keep == {a \in DOMAIN memory :
                    ~(meta.base <= a /\ a < meta.base + meta.total_size)}
    IN [a \in keep |-> memory[a]]

MemcpyShort(memory, dst, src, n) ==
    LET from == {a \in DOMAIN memory : src <= a /\ a < src + n - 1}
        to == {a - src + dst : a \in from}
    IN [a \in DOMAIN memory \cup to |->
          IF a \in to THEN memory[a - dst + src] ELSE memory[a]]

\* memcpy(dst, src, n) between regions that do not overlap.
memcpy(memory, dst, src, n) ==
    LET from == {a \in DOMAIN memory : src <= a /\ a < src + n}
        to == {a - src + dst : a \in from}
        zeroed == {a \in DOMAIN memory : dst <= a /\ a < dst + n} \ to
    IN [a \in (DOMAIN memory \ zeroed) \cup to |->
          IF a \in to THEN memory[a - dst + src] ELSE memory[a]]

TranslateSpStale(old_sp, old_stack_top, new_stack_top) == old_sp

\* new_sp = new_stack_top - used_bytes, with used_bytes = old_stack_top - old_sp
TranslateSp(old_sp, old_stack_top, new_stack_top) ==
    new_stack_top - (old_stack_top - old_sp)

NotGreaterNever(new_usable_size, old_meta) == FALSE

\* new_usable_size <= old_meta->usable_size
NotGreater(new_usable_size, old_meta) == new_usable_size <= old_meta.usable_size

\* The frame pointer after growth: moved with the stack only if it pointed
\* into the old stack.
TranslateFp(x29, old_meta, new_stack_top) ==
    IF x29 >= old_meta.usable_base /\ x29 <= StackTop(old_meta)
    THEN new_stack_top - (StackTop(old_meta) - x29)
    ELSE x29

\* stack_grow on a strand with metadata old_meta and saved context ctx; base
\* is what mmap returns for the new stack. The result is "false" with
\* nothing changed, "abort" (the saved stack pointer is outside the stack:
\* the unsigned old_stack_top - old_sp exceeds usable_size), or "true" with the
\* new metadata, context and memory.
stack_grow(old_meta, ctx, memory, new_usable_size, base) ==
    LET unchanged == [result |-> "false", meta |-> old_meta, context |-> ctx,
                      mem |-> memory]
        new_meta == stack_alloc(RoundUpToPage(new_usable_size), base)
        old_sp == ctx.sp
        old_stack_top == StackTop(old_meta)
        used_bytes == old_stack_top - old_sp
        new_stack_top == StackTop(new_meta)
        new_sp == TranslateSp(old_sp, old_stack_top, new_stack_top)
    IN IF NotGreater(new_usable_size, old_meta) THEN unchanged
       ELSE IF new_usable_size > CEM_MAX_STACK_SIZE THEN unchanged
       ELSE IF new_meta = NoMeta THEN unchanged
       ELSE IF old_sp > old_stack_top \/ used_bytes > old_meta.usable_size
            THEN [unchanged EXCEPT !.result = "abort"]
       ELSE [result |-> "true",
             meta |-> [new_meta EXCEPT !.growth_count = old_meta.growth_count + 1],
             context |-> [sp |-> new_sp,
                          x29 |-> TranslateFp(ctx.x29, old_meta, new_stack_top)],
             mem |-> Unmap(memcpy(memory, new_sp, old_sp, used_bytes), old_meta)]

NeedGrowthNever(meta, current_sp) == FALSE

NeedGrowth(meta, current_sp) ==
    \/ stack_get_free(meta, current_sp) < CEM_MIN_FREE_STACK
    \/ stack_get_used(meta, current_sp) >
          (meta.usable_size * CEM_STACK_GROWTH_THRESHOLD_PERCENT) \div 100

CheckAndGrowDropsStack(meta, ctx, memory, base) ==
    [result |-> "false", meta |-> NoMeta, context |-> ctx, mem |-> memory]

\* stack_check_and_grow(strand, CEM_CONTEXT_GET_SP(&strand->context)).
stack_check_and_grow(meta, ctx, memory, base) ==
    IF ~NeedGrowth(meta, ctx.sp) \/ meta.usable_size > SIZE_MAX \div 2
    THEN [result |-> "false", meta |-> meta, context |-> ctx, mem |-> memory]
    ELSE stack_grow(meta, ctx, memory, meta.usable_size * 2, base)

GuardPageFaultAlways(addr, meta) == meta # NoMeta

\* stack_is_guard_page_fault
stack_is_guard_page_fault(addr, meta) ==
    /\ meta # NoMeta
    /\ meta.base # 0
    /\ addr >= meta.base /\ addr < meta.base + meta.guard_page_size

\* ------------------------------------------------------------------- Init
NoStack == <<>>         \* a NULL StackCell*: the empty value stack
NoContext == [sp |-> 0, x29 |-> 0]
NoApiCall == [op |-> "", arg |-> NoStack, result |-> NoStack]
NoFault == [strand |-> NULL, addr |-> 0, handled |-> FALSE, grew |-> FALSE,
            retry_valid |-> FALSE]
NoCall == [op |-> "", strand |-> NULL, arg |-> 0, result |-> "", used |-> 0,
           free |-> 0]

Init ==
    /\ platform \in {"kqueue", "epoll"}
    /\ pc = "caller"
    /\ scheduler_initialized = FALSE
    /\ ready_queue_head = NULL /\ ready_queue_tail = NULL /\ blocked_list = NULL
    /\ current_strand = NULL
    /\ next_strand_id = 0
    /\ live = {}
    /\ state = [s \in StrandIds |-> "UNALLOCATED"]
    /\ stack = [s \in StrandIds |-> NoStack]
    /\ cleanup_handlers = [s \in StrandIds |-> <<>>]
    /\ blocked_fd = [s \in StrandIds |-> -1]
    /\ next = [s \in StrandIds |-> NULL]
    /\ entry_func = [s \in StrandIds |-> ""]
    /\ ip = [s \in StrandIds |-> 1]
    /\ local_stack = [s \in StrandIds |-> NoStack]
    /\ io_left = [s \in StrandIds |-> 0]
    /\ stack_meta = [s \in StrandIds |-> NoMeta]
    /\ subs = {}
    /\ fd_ready = {}
    /\ io_initialized = FALSE
    /\ run_returned = FALSE /\ run_result = NoStack
    /\ error = ""
    /\ execution_order = <<>> /\ cleanup_log = <<>> /\ spawn_log = <<>>
    /\ queue_trace = <<>>
    /\ free_log = <<>>
    /\ entry_returned = [s \in StrandIds |-> [done |-> FALSE, stack |-> NoStack]]
    /\ context = [s \in StrandIds |-> NoContext]
    /\ mem = <<>>
    /\ fault = NoFault
    /\ stack_call = NoCall
    /\ io_buf = [s \in StrandIds |-> NULL]
    /\ io_entry = [s \in StrandIds |-> <<>>]
    /\ dispatch_count = [s \in StrandIds |-> 0]
    /\ yield_count = [s \in StrandIds |-> 0]
    /\ cycle = 0
    /\ last_call = NoApiCall

\* runtime_error: print the message and exit(1).
runtime_error(msg) ==
    /\ pc' = "fatal"
    /\ error' = msg

\* The process is killed by a SIGSEGV that no handler recovers from.
runtime_fault ==
    /\ pc' = "fatal"
    /\ error' = "SIGSEGV"

\* ------------------------------------------------------ strand management
\* The handlers of strand s in the order strand_run_cleanup_handlers calls
\* them: from the head of the list, skipping NULL functions.
RunCleanupHandlersFifo(s) ==
    LET h == cleanup_handlers[s]
        r == [i \in 1..Len(h) |-> h[Len(h) + 1 - i]]
    IN [i \in 1..Len(r) |-> [strand |-> s, func |-> r[i].func, arg |-> r[i].arg]]

strand_run_cleanup_handlers(s) ==
    LET h == SelectSeq(cleanup_handlers[s], LAMBDA x : x.func # "")
    IN [i \in 1..Len(h) |-> [strand |-> s, func |-> h[i].func, arg |-> h[i].arg]]

\* The handlers invoked when the strands of the sequence `doomed` are freed
\* one after the other.
RECURSIVE FreeLog(_)
FreeLog(doomed) ==
    IF doomed = <<>> THEN <<>>
    ELSE strand_run_cleanup_handlers(Head(doomed)) \o FreeLog(Tail(doomed))

\* The free_stack and free(strand) calls strand_free makes for the strands of
\* `doomed`, whose value stacks are `stacks`; free_stack(NULL) does nothing.
RECURSIVE FreeCalls(_, _)
FreeCalls(doomed, stacks) ==
    IF doomed = <<>> THEN <<>>
    ELSE LET s == Head(doomed) IN
         (IF stacks[s] # NoStack
          THEN <<[op |-> "free_stack", strand |-> s]>> ELSE <<>>)
         \o <<[op |-> "strand_free", strand |-> s]>>
         \o FreeCalls(Tail(doomed), stacks)

\* strand_free of every strand of `doomed`: handlers run, record released.
strand_free(doomed) ==
    LET gone == SeqToSet(doomed) IN
    /\ cleanup_log' = cleanup_log \o FreeLog(doomed)
    /\ live' = live \ gone
    /\ state' = [s \in StrandIds |-> IF s \in gone THEN "UNALLOCATED" ELSE state[s]]
    /\ stack' = [s \in StrandIds |-> IF s \in gone THEN NoStack ELSE stack[s]]
    /\ cleanup_handlers' =
          [s \in StrandIds |-> IF s \in gone THEN <<>> ELSE cleanup_handlers[s]]
    /\ blocked_fd' = [s \in StrandIds |-> IF s \in gone THEN -1 ELSE blocked_fd[s]]
    /\ entry_func' = [s \in StrandIds |-> IF s \in gone THEN "" ELSE entry_func[s]]
    /\ ip' = [s \in StrandIds |-> IF s \in gone THEN 1 ELSE ip[s]]
    /\ local_stack' =
          [s \in StrandIds |-> IF s \in gone THEN NoStack ELSE local_stack[s]]
    /\ io_left' = [s \in StrandIds |-> IF s \in gone THEN 0 ELSE io_left[s]]
    /\ stack_meta' = [s \in StrandIds |-> IF s \in gone THEN NoMeta ELSE stack_meta[s]]
    /\ context' = [s \in StrandIds |-> IF s \in gone THEN NoContext ELSE context[s]]
    /\ io_buf' = [s \in StrandIds |-> IF s \in gone THEN NULL ELSE io_buf[s]]
    /\ io_entry' = [s \in StrandIds |-> IF s \in gone THEN <<>> ELSE io_entry[s]]

\* ----------------------------------------------------- init and shutdown
\* memset(&global_scheduler, 0, ...); global_scheduler.next_strand_id = 1
InitKeepsNextId(old) == old

InitNextId(old) == 1

scheduler_init ==
    /\ pc = "caller"
    /\ IF scheduler_initialized
       THEN /\ runtime_error("scheduler_init: scheduler already initialized")
            /\ UNCHANGED <<platform, api_vars, cstack_vars, sched_vars, strand_vars, io_vars, io_initialized,
                           run_returned, run_result, log_vars>>
       ELSE /\ scheduler_initialized' = TRUE
            /\ ready_queue_head' = NULL /\ ready_queue_tail' = NULL
            /\ blocked_list' = NULL /\ current_strand' = NULL
            /\ next_strand_id' = InitNextId(next_strand_id)
            /\ subs' = {}
            /\ UNCHANGED <<platform, api_vars, cstack_vars, pc, strand_vars, fd_ready, io_initialized,
                           run_returned, run_result, error, log_vars>>

\* Frees the ready queue from its head, then the blocked list from its head,
\* then the current strand; closes the reactor. Returns at once when the
\* scheduler is not initialised. The caller then ends.
scheduler_shutdown ==
    /\ pc \in {"caller", "returned"}
    /\ pc' = "exited"
    /\ IF ~scheduler_initialized
       THEN UNCHANGED <<sched_vars, strand_vars, subs, cleanup_log, context,
                        io_buf, io_entry, free_log>>
       ELSE /\ LET doomed == ReadySeq \o BlockedSeq \o
                             (IF current_strand # NULL THEN <<current_strand>>
                              ELSE <<>>)
               IN /\ strand_free(doomed)
                  /\ free_log' = free_log \o FreeCalls(doomed, stack)
            /\ ready_queue_head' = NULL /\ ready_queue_tail' = NULL
            /\ blocked_list' = NULL /\ current_strand' = NULL
            /\ next' = [s \in StrandIds |-> NULL]
            /\ subs' = {}
            /\ scheduler_initialized' = FALSE
            /\ UNCHANGED next_strand_id
    /\ UNCHANGED <<platform, dispatch_count, yield_count, cycle, last_call,
                   mem, fault, stack_call, fd_ready, io_initialized, run_returned, run_result,
                   error, execution_order, spawn_log, queue_trace, entry_returned>>

\* ----------------------------------------------------------------- spawn
\* The messages strand_alloc ends the process with when malloc or stack_alloc
\* fails.
StrandAllocErrors ==
    {"strand_alloc: out of memory",
     "strand_alloc: failed to allocate dynamic stack"}

\* The fields strand_alloc gives a new strand when its allocations succeed.
StrandAllocRunning(id, initial_stack) ==
    [state |-> "RUNNING", stack |-> initial_stack, cleanup_handlers |-> <<>>,
     blocked_fd |-> -1,
     stack_meta |-> stack_alloc(CEM_INITIAL_STACK_SIZE, MmapFirstFit(stack_meta))]

strand_alloc(id, initial_stack) ==
    [state |-> "READY", stack |-> initial_stack, cleanup_handlers |-> <<>>,
     blocked_fd |-> -1,
     stack_meta |-> stack_alloc(CEM_INITIAL_STACK_SIZE, MmapFirstFit(stack_meta))]

\* strand_spawn past its checks: strand_alloc, cem_makecontext and
\* ready_queue_push for a new strand; `parent` is the running strand that
\* spawns it, NULL for the caller.
SpawnStrand(e, initial_stack, parent) ==
    LET id == next_strand_id
        strand == strand_alloc(id, initial_stack)
    IN
    /\ next_strand_id' = id + 1
    /\ live' = live \cup {id}
    /\ state' = [state EXCEPT ![id] = strand.state]
    /\ stack' = [stack EXCEPT ![id] = strand.stack]
    /\ cleanup_handlers' = [cleanup_handlers EXCEPT ![id] = strand.cleanup_handlers]
    /\ blocked_fd' = [blocked_fd EXCEPT ![id] = strand.blocked_fd]
    /\ entry_func' = [entry_func EXCEPT ![id] = e]
    /\ ip' = [s \in StrandIds |->
                IF s = id THEN 1 ELSE IF s = parent THEN ip[s] + 1 ELSE ip[s]]
    /\ local_stack' = [local_stack EXCEPT ![id] = initial_stack]
    /\ stack_meta' = [stack_meta EXCEPT ![id] = strand.stack_meta]
    /\ context' = [context EXCEPT ![id] = cem_makecontext(strand.stack_meta)]
    /\ dispatch_count' = [dispatch_count EXCEPT ![id] = 0]
    /\ yield_count' = [yield_count EXCEPT ![id] = 0]
    /\ SetLinks(ready_queue_push(Links, id))
    /\ spawn_log' = Append(spawn_log, [entry |-> e, parent |-> parent,
                                      stack |-> initial_stack])

\* strand_spawn called by the code that drives the scheduler.
strand_spawn(e, initial_stack) ==
    /\ pc = "caller"
    /\ IF ~scheduler_initialized
       THEN /\ runtime_error("strand_spawn: scheduler not initialized")
            /\ UNCHANGED <<platform, api_vars, cstack_vars, sched_vars, strand_vars, io_vars, io_initialized,
                           run_returned, run_result, log_vars>>
       ELSE IF e = ""
       THEN /\ runtime_error("strand_spawn: entry_func is NULL")
            /\ UNCHANGED <<platform, api_vars, cstack_vars, sched_vars, strand_vars, io_vars, io_initialized,
                           run_returned, run_result, log_vars>>
       ELSE /\ next_strand_id <= MaxStrands
            /\ \/ /\ SpawnStrand(e, initial_stack, NULL)
                  /\ UNCHANGED <<platform, io_buf, io_entry, cycle, last_call, mem, fault,
                                 stack_call, pc, scheduler_initialized,
                                 current_strand, io_left, io_vars, io_initialized, run_returned,
                                 run_result, error, execution_order, cleanup_log, queue_trace, entry_returned, free_log>>
               \/ /\ \E msg \in StrandAllocErrors : runtime_error(msg)
                  /\ next_strand_id' = next_strand_id + 1
                  /\ UNCHANGED <<platform, api_vars, cstack_vars, scheduler_initialized,
                                 ready_queue_head, ready_queue_tail, blocked_list,
                                 current_strand, strand_vars, io_vars, io_initialized,
                                 run_returned, run_result, log_vars>>

\* ------------------------------------------------- calls made by a strand
Running == pc = "strand" /\ current_strand # NULL

\* The call the running strand makes next; "return" once its entry is done.
CurOp ==
    LET s == current_strand
        b == EntryBody(entry_func[s])
    IN IF ip[s] <= Len(b) THEN b[ip[s]]
       ELSE [op |-> "return", v |-> 0, func |-> "", arg |-> 0]

Advance(s) == ip' = [ip EXCEPT ![s] = @ + 1]

\* record(value) of the tests: append a marker to the shared trace (kept
\* with the strand that recorded it).
record ==
    /\ Running /\ CurOp.op = "record"
    /\ execution_order' =
          Append(execution_order, [strand |-> current_strand, v |-> CurOp.v])
    /\ Advance(current_strand)
    /\ UNCHANGED <<platform, api_vars, cstack_vars, pc, sched_vars, live, state, stack,
                   cleanup_handlers, blocked_fd, next, entry_func, stack_meta, local_stack,
                   io_left, io_vars, io_initialized, run_returned, run_result, error,
                   cleanup_log, spawn_log, queue_trace, entry_returned, free_log>>

\* strand_spawn called by the running strand.
strand_spawn_child ==
    /\ Running /\ CurOp.op = "spawn"
    /\ \/ /\ next_strand_id <= MaxStrands
          /\ SpawnStrand(CurOp.func, NoStack, current_strand)
          /\ UNCHANGED <<platform, io_buf, io_entry, cycle, last_call, mem, fault,
                                 stack_call, pc, scheduler_initialized, current_strand,
                         io_left, io_vars, io_initialized, run_returned,
                         run_result, error, execution_order, cleanup_log, queue_trace, entry_returned, free_log>>
       \/ /\ \E msg \in StrandAllocErrors : runtime_error(msg)
          /\ next_strand_id' = next_strand_id + 1
          /\ UNCHANGED <<platform, api_vars, cstack_vars, scheduler_initialized, ready_queue_head,
                         ready_queue_tail, blocked_list, current_strand,
                         strand_vars, io_vars, io_initialized, run_returned,
                         run_result, log_vars>>

\* scheduler_shutdown called by the running strand. It frees the ready queue,
\* the blocked list and then the strand that called it: strand_free runs the
\* caller's handlers and stack_free unmaps the stack the call is running on.
\* The next use of that stack (inside stack_free, before the current strand is
\* cleared and the reactor closed) is an access to unmapped memory, and the
\* process is killed by SIGSEGV.
scheduler_shutdown_in_strand ==
    /\ Running /\ CurOp.op = "shutdown"
    /\ strand_free(ReadySeq \o BlockedSeq \o <<current_strand>>)
    /\ free_log' = free_log \o
          FreeCalls(ReadySeq \o BlockedSeq \o <<current_strand>>, stack)
    /\ ready_queue_head' = NULL /\ ready_queue_tail' = NULL
    /\ blocked_list' = NULL
    /\ next' = [s \in StrandIds |-> NULL]
    /\ runtime_fault
    /\ UNCHANGED <<platform, dispatch_count, yield_count, cycle, last_call,
                   mem, fault, stack_call, scheduler_initialized, current_strand, next_strand_id,
                   io_vars, io_initialized, run_returned, run_result,
                   execution_order, spawn_log, queue_trace, entry_returned>>

\* cem_swapcontext(&strand->context, &scheduler_context): the registers of the
\* strand as it leaves, SuspendedFrameBytes below the top of its stack.
SwitchedOut(s) ==
    [sp |-> StackTop(stack_meta[s]) - SuspendedFrameBytes,
     x29 |-> StackTop(stack_meta[s]) - SuspendedFrameBytes + 16]

PushHandler(h, f, a) == <<[func |-> f, arg |-> a]>> \o h

strand_push_cleanup ==
    /\ Running /\ CurOp.op = "push_cleanup"
    /\ IF CurOp.func = ""
       THEN /\ runtime_error("strand_push_cleanup: cleanup function cannot be NULL")
            /\ UNCHANGED <<cleanup_handlers, ip>>
       ELSE \/ /\ cleanup_handlers' =
                    [cleanup_handlers EXCEPT ![current_strand] =
                        PushHandler(@, CurOp.func, CurOp.arg)]
               /\ Advance(current_strand)
               /\ UNCHANGED <<pc, error>>
            \/ /\ runtime_error("strand_push_cleanup: out of memory")
               /\ UNCHANGED <<cleanup_handlers, ip>>
    /\ UNCHANGED <<platform, api_vars, cstack_vars, sched_vars, live, state, stack, blocked_fd, next,
                   entry_func, stack_meta, local_stack, io_left, io_vars, io_initialized, run_returned,
                   run_result, log_vars>>

PopHandlerKeepsIt(h) == h

PopHandler(h) == Tail(h)

strand_pop_cleanup ==
    /\ Running /\ CurOp.op = "pop_cleanup"
    /\ IF cleanup_handlers[current_strand] = <<>>
       THEN /\ runtime_error("strand_pop_cleanup: no cleanup handlers to pop")
            /\ UNCHANGED <<cleanup_handlers, ip>>
       ELSE /\ cleanup_handlers' =
                 [cleanup_handlers EXCEPT ![current_strand] = PopHandler(@)]
            /\ Advance(current_strand)
            /\ UNCHANGED <<pc, error>>
    /\ UNCHANGED <<platform, api_vars, cstack_vars, sched_vars, live, state, stack, blocked_fd, next,
                   entry_func, stack_meta, local_stack, io_left, io_vars, io_initialized, run_returned,
                   run_result, log_vars>>

\* handler->arg = new_arg on the head of the list.
UpdateKeepsOldArg(h, a) == h

UpdateHandlerArg(h, a) == [h EXCEPT ![1].arg = a]

strand_update_cleanup_arg ==
    /\ Running /\ CurOp.op = "update_cleanup_arg"
    /\ IF cleanup_handlers[current_strand] = <<>>
       THEN /\ runtime_error("strand_update_cleanup_arg: no cleanup handlers to update")
            /\ UNCHANGED <<cleanup_handlers, ip>>
       ELSE /\ cleanup_handlers' =
                 [cleanup_handlers EXCEPT ![current_strand] =
                     UpdateHandlerArg(@, CurOp.arg)]
            /\ Advance(current_strand)
            /\ UNCHANGED <<pc, error>>
    /\ UNCHANGED <<platform, api_vars, cstack_vars, sched_vars, live, state, stack, blocked_fd, next,
                   entry_func, stack_meta, local_stack, io_left, io_vars, io_initialized, run_returned,
                   run_result, log_vars>>

\* strand_yield: mark YIELDED, re-queue at the tail, clear the current strand
\* and switch to the scheduler, which finds YIELDED and loops.
strand_yield ==
    /\ Running /\ CurOp.op = "yield"
    /\ state' = [state EXCEPT ![current_strand] = "YIELDED"]
    /\ SetLinks(ready_queue_push(Links, current_strand))
    /\ current_strand' = NULL
    /\ context' = [context EXCEPT ![current_strand] = SwitchedOut(current_strand)]
    /\ yield_count' = [yield_count EXCEPT ![current_strand] = @ + 1]
    /\ Advance(current_strand)
    /\ pc' = "sched"
    /\ UNCHANGED <<platform, io_buf, io_entry, dispatch_count, cycle, last_call,
                   mem, fault, stack_call, scheduler_initialized, next_strand_id, live, stack,
                   cleanup_handlers, blocked_fd, entry_func, stack_meta, local_stack, io_left,
                   io_vars, io_initialized, run_returned, run_result, error, log_vars>>

\* ---------------------------------------------------------------- reactor
\* A registration: the descriptor, the filter ("read" or "write"), the strand
\* it wakes (the udata / data.ptr) and whether it can still fire.
Sub(fd, filter, s) == [fd |-> fd, filter |-> filter, strand |-> s, armed |-> TRUE]

\* epoll_ctl(EPOLL_CTL_ADD) fails with EEXIST when the descriptor is already
\* in the interest list, armed or not; kevent(EV_ADD) never fails for that.
RegisterFails(registered, fd) ==
    platform = "epoll" /\ \E r \in registered : r.fd = fd

\* kevent(EV_ADD | EV_ONESHOT): re-adding an existing (ident, filter) event
\* modifies that event, its udata included; EPOLL_CTL_ADD adds an entry.
Register(registered, fd, filter, s) ==
    IF platform = "kqueue"
    THEN {r \in registered : ~(r.fd = fd /\ r.filter = filter)}
            \cup {Sub(fd, filter, s)}
    ELSE registered \cup {Sub(fd, filter, s)}

\* A delivered one-shot event: EV_ONESHOT deletes the event, EPOLLONESHOT
\* leaves the descriptor in the interest list, disabled.
Fired(registered, r) ==
    IF platform = "kqueue" THEN registered \ {r}
    ELSE (registered \ {r}) \cup {[r EXCEPT !.armed = FALSE]}

\* The registrations a wait reports now.
Pending == {r \in subs : r.armed /\ <<r.fd, r.filter>> \in fd_ready}

Min(a, b) == IF a < b THEN a ELSE b

\* The orders in which one wait can report the pending events.
Batches ==
    LET k == Min(Cardinality(Pending), MAX_IO_EVENTS)
    IN {b \in [1..k -> Pending] : \A i, j \in 1..k : i # j => b[i] # b[j]}

\* The state a strand takes when it blocks.
BlockedStateStaysRunning(filter) == "RUNNING"

BlockedState(filter) == IF filter = "read" THEN "BLOCKED_READ" ELSE "BLOCKED_WRITE"

\* strand_block_on_read / strand_block_on_write up to the switch to the
\* scheduler, which finds BLOCKED_* and loops.
InvalidFdNever(fd) == FALSE

InvalidFd(fd) == fd < 0

BlockOn(s, fd, filter) ==
    IF InvalidFd(fd)
    THEN /\ runtime_error(IF filter = "read"
                           THEN "strand_block_on_read: invalid file descriptor"
                           ELSE "strand_block_on_write: invalid file descriptor")
         /\ UNCHANGED <<state, blocked_fd, subs, ready_queue_head,
                        ready_queue_tail, blocked_list, next, current_strand,
                        context>>
    ELSE /\ state' = [state EXCEPT ![s] = BlockedState(filter)]
         /\ blocked_fd' = [blocked_fd EXCEPT ![s] = fd]
         /\ IF RegisterFails(subs, fd)
            THEN /\ runtime_error(
                      IF filter = "read"
                      THEN "strand_block_on_read: Failed to register fd for read events"
                      ELSE "strand_block_on_write: Failed to register fd for write events")
                 /\ UNCHANGED <<subs, ready_queue_head, ready_queue_tail,
                                blocked_list, next, current_strand, context>>
            ELSE /\ subs' = Register(subs, fd, filter, s)
                 /\ SetLinks(blocked_list_add(Links, s))
                 /\ current_strand' = NULL
                 /\ context' = [context EXCEPT ![s] = SwitchedOut(s)]
                 /\ pc' = "sched"
                 /\ UNCHANGED error

\* ------------------------------------------------------------ I/O adapter
\* The buffer write_line / read_line of strand s has in flight.
BufferOf(s) == 1000 + s

\* The ways write_line ends the process: the message, whether the buffer's
\* handler was registered and has been popped before, and whether
\* ensure_nonblocking_io had finished. The first three happen only on entry.
WriteLineFailures(entering) ==
    (IF entering /\ ~io_initialized
     THEN {[msg |-> "ensure_nonblocking_io: failed to set stdout non-blocking",
            popped |-> FALSE, io_done |-> FALSE],
           [msg |-> "ensure_nonblocking_io: failed to set stdin non-blocking",
            popped |-> FALSE, io_done |-> FALSE]}
     ELSE {})
    \cup (IF entering
          THEN {[msg |-> "write_line: out of memory",
                 popped |-> FALSE, io_done |-> TRUE]}
          ELSE {})
    \cup {[msg |-> "write_line: write() failed", popped |-> TRUE, io_done |-> TRUE],
          [msg |-> "write_line: unexpected write() return 0",
           popped |-> TRUE, io_done |-> TRUE]}

ReadLineFailures(entering) ==
    (IF entering /\ ~io_initialized
     THEN {[msg |-> "ensure_nonblocking_io: failed to set stdout non-blocking",
            popped |-> FALSE, io_done |-> FALSE],
           [msg |-> "ensure_nonblocking_io: failed to set stdin non-blocking",
            popped |-> FALSE, io_done |-> FALSE]}
     ELSE {})
    \cup (IF entering
          THEN {[msg |-> "read_line: out of memory",
                 popped |-> FALSE, io_done |-> TRUE]}
          ELSE {})
    \cup {[msg |-> "read_line: read() failed", popped |-> TRUE, io_done |-> TRUE],
          [msg |-> "read_line: out of memory", popped |-> TRUE, io_done |-> TRUE]}

\* write_line from where the strand is (its start, or the retry after a
\* wake-up) to its return, to the next strand_block_on_write, or to a fatal
\* error.
write_line ==
    /\ Running /\ CurOp.op = "write_line"
    /\ LET s == current_strand
           entering == io_left[s] = 0
           left == IF entering THEN PayloadLen ELSE io_left[s]
           buffer == IF entering THEN BufferOf(s) ELSE io_buf[s]
           entry == IF entering THEN cleanup_handlers[s] ELSE io_entry[s]
           handlers == IF entering
                       THEN PushHandler(cleanup_handlers[s], "free", buffer)
                       ELSE cleanup_handlers[s]
       IN \/ \* write() accepts all that is left: pop the handler, free, return
             /\ <<STDOUT_FILENO, "write">> \in fd_ready
             /\ \E full \in BOOLEAN :
                   fd_ready' = IF full THEN fd_ready \ {<<STDOUT_FILENO, "write">>}
                               ELSE fd_ready
             /\ cleanup_handlers' = [cleanup_handlers EXCEPT ![s] = PopHandler(handlers)]
             /\ io_left' = [io_left EXCEPT ![s] = 0]
             /\ io_initialized' = TRUE
             /\ io_buf' = [io_buf EXCEPT ![s] = NULL]
             /\ io_entry' = [io_entry EXCEPT ![s] = entry]
             /\ Advance(s)
             /\ UNCHANGED <<pc, error, state, blocked_fd, subs, ready_queue_head,
                            ready_queue_tail, blocked_list, next, current_strand,
                            context>>
          \/ \* write() accepts n < left bytes, then EAGAIN: block on stdout
             /\ \E n \in 0..(left - 1) :
                   /\ (n > 0) => <<STDOUT_FILENO, "write">> \in fd_ready
                   /\ (n = 0) => <<STDOUT_FILENO, "write">> \notin fd_ready
                   /\ io_left' = [io_left EXCEPT ![s] = left - n]
             /\ fd_ready' = fd_ready \ {<<STDOUT_FILENO, "write">>}
             /\ cleanup_handlers' = [cleanup_handlers EXCEPT ![s] = handlers]
             /\ io_initialized' = TRUE
             /\ io_buf' = [io_buf EXCEPT ![s] = buffer]
             /\ io_entry' = [io_entry EXCEPT ![s] = entry]
             /\ BlockOn(s, STDOUT_FILENO, "write")
             /\ UNCHANGED ip
          \/ \* fcntl, malloc or write() fails: runtime_error
             /\ \E f \in WriteLineFailures(entering) :
                   /\ runtime_error(f.msg)
                   /\ io_initialized' = (io_initialized \/ f.io_done)
                   /\ cleanup_handlers' =
                         [cleanup_handlers EXCEPT ![s] =
                             IF f.popped THEN PopHandler(handlers) ELSE @]
                   /\ io_buf' = [io_buf EXCEPT ![s] = IF f.popped THEN NULL ELSE @]
                   /\ io_entry' = [io_entry EXCEPT ![s] = IF f.popped THEN entry ELSE @]
             /\ UNCHANGED <<ip, io_left, fd_ready, state, blocked_fd, subs,
                            ready_queue_head, ready_queue_tail, blocked_list,
                            next, current_strand, context>>
    /\ UNCHANGED <<platform, dispatch_count, yield_count, cycle, last_call, mem, fault,
                   stack_call, scheduler_initialized, next_strand_id, live, stack,
                   entry_func, stack_meta, local_stack, run_returned, run_result,
                   log_vars>>

\* realloc(buffer, capacity * 2) when it moves the block: the new address.
Realloc(buffer) == buffer + 100

\* The buffer read_line starts with has been moved at most MaxReallocs times.
CanRealloc(s, buffer) == buffer < BufferOf(s) + 100 * MaxReallocs

\* strand_pop_cleanup(); buffer = new_buffer; strand_push_cleanup(free, buffer)
RehomeKeepsOld(h, buffer) == h

RehomeHandler(h, buffer) == PushHandler(PopHandler(h), "free", buffer)

\* read_line likewise: to its return (a string cell pushed on the value
\* stack), to the next strand_block_on_read, or to a fatal error.
read_line ==
    /\ Running /\ CurOp.op = "read_line"
    /\ LET s == current_strand
           entering == io_left[s] = 0
           buffer == IF entering THEN BufferOf(s) ELSE io_buf[s]
           entry == IF entering THEN cleanup_handlers[s] ELSE io_entry[s]
           handlers == IF entering
                       THEN PushHandler(cleanup_handlers[s], "free", buffer)
                       ELSE cleanup_handlers[s]
       IN \/ \* a newline or EOF is read: hand the buffer to a string cell
             /\ <<STDIN_FILENO, "read">> \in fd_ready
             /\ \E drained \in BOOLEAN :
                   fd_ready' = IF drained THEN fd_ready \ {<<STDIN_FILENO, "read">>}
                               ELSE fd_ready
             /\ cleanup_handlers' = [cleanup_handlers EXCEPT ![s] = PopHandler(handlers)]
             /\ io_left' = [io_left EXCEPT ![s] = 0]
             /\ local_stack' = [local_stack EXCEPT ![s] = <<"line">> \o @]
             /\ io_initialized' = TRUE
             /\ io_buf' = [io_buf EXCEPT ![s] = NULL]
             /\ io_entry' = [io_entry EXCEPT ![s] = entry]
             /\ Advance(s)
             /\ UNCHANGED <<pc, error, state, blocked_fd, subs, ready_queue_head,
                            ready_queue_tail, blocked_list, next, current_strand,
                            context>>
          \/ \* read() reports EAGAIN before the line is complete; the bytes
             \* read so far may have outgrown the buffer and moved it
             /\ fd_ready' = fd_ready \ {<<STDIN_FILENO, "read">>}
             /\ \E moved \in {m \in BOOLEAN : m => CanRealloc(s, buffer)} :
                   LET new_buffer == IF moved THEN Realloc(buffer) ELSE buffer
                   IN /\ cleanup_handlers' =
                            [cleanup_handlers EXCEPT ![s] =
                                IF moved THEN RehomeHandler(handlers, new_buffer)
                                ELSE handlers]
                      /\ io_buf' = [io_buf EXCEPT ![s] = new_buffer]
             /\ io_entry' = [io_entry EXCEPT ![s] = entry]
             /\ io_left' = [io_left EXCEPT ![s] = 1]
             /\ io_initialized' = TRUE
             /\ BlockOn(s, STDIN_FILENO, "read")
             /\ UNCHANGED <<ip, local_stack>>
          \/ \* fcntl, malloc, realloc or read() fails: runtime_error
             /\ \E f \in ReadLineFailures(entering) :
                   /\ runtime_error(f.msg)
                   /\ io_initialized' = (io_initialized \/ f.io_done)
                   /\ cleanup_handlers' =
                         [cleanup_handlers EXCEPT ![s] =
                             IF f.popped THEN PopHandler(handlers) ELSE @]
                   /\ io_buf' = [io_buf EXCEPT ![s] = IF f.popped THEN NULL ELSE @]
                   /\ io_entry' = [io_entry EXCEPT ![s] = IF f.popped THEN entry ELSE @]
             /\ UNCHANGED <<ip, io_left, local_stack, fd_ready, state, blocked_fd,
                            subs, ready_queue_head, ready_queue_tail, blocked_list,
                            next, current_strand, context>>
    /\ UNCHANGED <<platform, dispatch_count, yield_count, cycle, last_call, mem, fault,
                   stack_call, scheduler_initialized, next_strand_id, live, stack,
                   entry_func, stack_meta, run_returned, run_result, log_vars>>

\* A descriptor becomes ready: the reader of stdout drains the pipe, or input
\* arrives on stdin. Readiness is looked at only by a read or write call and
\* by a reactor wait, so the change is taken when one of them can see it.
Observed(fd, filter) ==
    \/ \E r \in subs : r.armed /\ r.fd = fd /\ r.filter = filter
    \/ /\ Running
       /\ CurOp.op = (IF filter = "write" THEN "write_line" ELSE "read_line")
       /\ fd = (IF filter = "write" THEN STDOUT_FILENO ELSE STDIN_FILENO)

FdBecomesReady(fd, filter) ==
    /\ pc \in {"sched", "strand"}
    /\ Observed(fd, filter)
    /\ <<fd, filter>> \notin fd_ready
    /\ fd_ready' = fd_ready \cup {<<fd, filter>>}
    /\ UNCHANGED <<platform, api_vars, cstack_vars, pc, sched_vars, strand_vars, subs, io_initialized,
                   run_returned, run_result, error, log_vars>>

\* ----------------------------------------------------------- scheduler_run
\* The strand's entry function returns to strand_entry_trampoline, which
\* stores the final stack, marks the strand COMPLETED and switches away.
TrampolineKeepsInitialStack(s) == stack[s]

FinalStack(s) == local_stack[s]

strand_entry_trampoline ==
    /\ Running /\ CurOp.op = "return"
    /\ state' = [state EXCEPT ![current_strand] = "COMPLETED"]
    /\ stack' = [stack EXCEPT ![current_strand] = FinalStack(current_strand)]
    /\ entry_returned' = [entry_returned EXCEPT ![current_strand] =
                             [done |-> TRUE, stack |-> local_stack[current_strand]]]
    /\ pc' = "completed"
    /\ UNCHANGED <<platform, api_vars, cstack_vars, sched_vars, live, cleanup_handlers, blocked_fd, next,
                   entry_func, stack_meta, ip, local_stack, io_left, io_vars, io_initialized,
                   run_returned, run_result, error, execution_order, cleanup_log,
                   spawn_log, queue_trace, free_log>>

scheduler_run_enter ==
    /\ pc = "caller"
    /\ IF ~scheduler_initialized
       THEN runtime_error("scheduler_run: scheduler not initialized")
       ELSE pc' = "sched" /\ UNCHANGED error
    /\ UNCHANGED <<platform, api_vars, cstack_vars, sched_vars, strand_vars, io_vars, io_initialized,
                   run_returned, run_result, log_vars>>

\* The saved stack pointer of a strand about to be resumed (CEM_CONTEXT_GET_SP).
SavedSp(s) == context[s].sp

\* The saved context of strand s in the scheduler runs.
SavedContext(s) == context[s]

\* One iteration with a ready strand, up to the switch into the strand: pop
\* it, mark it RUNNING, make it current, run the stack checkpoint (its result
\* is not looked at). A strand resumed inside strand_block_on_* first resets
\* its blocked_fd.
Dispatch ==
    /\ pc = "sched"
    /\ ~ready_queue_is_empty
    /\ LET s == PoppedStrand(Links) IN
       /\ SetLinks(ready_queue_pop(Links))
       /\ state' = [state EXCEPT ![s] = "RUNNING"]
       /\ current_strand' = s
       /\ blocked_fd' = [blocked_fd EXCEPT ![s] = -1]
       /\ \E mapped \in BOOLEAN :
             /\ mapped \/ NeedGrowth(stack_meta[s], SavedSp(s))
             /\ LET r == stack_check_and_grow(stack_meta[s], SavedContext(s), mem,
                             IF mapped THEN MmapFirstFit(stack_meta) ELSE MAP_FAILED)
                IN /\ stack_meta' = [stack_meta EXCEPT ![s] = r.meta]
                   /\ context' = [context EXCEPT ![s] = r.context]
       /\ dispatch_count' = [dispatch_count EXCEPT ![s] = Min(@ + 1, MaxYields + 2)]
    /\ pc' = "strand"
    /\ UNCHANGED <<platform, io_buf, io_entry, yield_count, cycle, last_call,
                   mem, fault, stack_call, scheduler_initialized, next_strand_id, live, stack,
                   cleanup_handlers, entry_func, ip, local_stack, io_left,
                   io_vars, io_initialized, run_returned, run_result, error,
                   log_vars>>

\* The result of the branch taken when the strand came back COMPLETED.
ReturnsWhenMainCompletes == current_strand = 1

ReturnsFinalStack == ready_queue_is_empty /\ blocked_list = NULL /\ current_strand = 1

\* The scheduler is back from a strand that completed: free it, and return
\* its final stack if it is strand 1 and nothing else is left.
Reap ==
    /\ pc = "completed"
    /\ LET s == current_strand IN
       /\ strand_free(<<s>>)
       /\ free_log' = free_log \o
             (IF ReturnsFinalStack \/ stack[s] = NoStack THEN <<>>
              ELSE <<[op |-> "free_stack", strand |-> s]>>)
             \o FreeCalls(<<s>>, [stack EXCEPT ![s] = NoStack])
       /\ IF ReturnsFinalStack
          THEN /\ run_result' = stack[s]
               /\ run_returned' = TRUE
               /\ pc' = "returned"
          ELSE /\ pc' = "sched"
               /\ UNCHANGED <<run_result, run_returned>>
    /\ current_strand' = NULL
    /\ UNCHANGED <<platform, dispatch_count, yield_count, cycle, last_call,
                   mem, fault, stack_call, scheduler_initialized, ready_queue_head,
                   ready_queue_tail, blocked_list, next, next_strand_id,
                   io_vars, io_initialized, error, execution_order, spawn_log, queue_trace, entry_returned>>

\* The events of batch b taken in order: each strand leaves the blocked
\* list, becomes READY and joins the ready queue.
RECURSIVE WakeLinks(_, _, _)
WakeLinks(q, b, i) ==
    IF i > Len(b) THEN q
    ELSE WakeLinks(ready_queue_push(blocked_list_remove(q, b[i].strand),
                                    b[i].strand), b, i + 1)

RECURSIVE FiredAll(_, _, _)
FiredAll(registered, b, i) ==
    IF i > Len(b) THEN registered
    ELSE FiredAll(Fired(registered, b[i]), b, i + 1)

\* One iteration with no ready strand and a blocked one: wait for events.
ReactorWait ==
    /\ pc = "sched"
    /\ ready_queue_is_empty
    /\ blocked_list # NULL
    /\ Pending # {}
    /\ \E b \in Batches :
          /\ SetLinks(WakeLinks(Links, b, 1))
          /\ state' = [s \in StrandIds |->
                         IF \E i \in 1..Len(b) : b[i].strand = s
                         THEN "READY" ELSE state[s]]
          /\ subs' = FiredAll(subs, b, 1)
    /\ UNCHANGED <<platform, api_vars, cstack_vars, pc, scheduler_initialized, current_strand,
                   next_strand_id, live, stack, cleanup_handlers, blocked_fd,
                   entry_func, stack_meta, ip, local_stack, io_left, fd_ready,
                   io_initialized, run_returned, run_result, error, log_vars>>

\* Nothing ready and nothing blocked: the loop ends and NULL is returned.
scheduler_run_exit ==
    /\ pc = "sched"
    /\ ready_queue_is_empty
    /\ blocked_list = NULL
    /\ current_strand' = NULL
    /\ run_result' = NoStack
    /\ run_returned' = TRUE
    /\ pc' = "returned"
    /\ UNCHANGED <<platform, api_vars, cstack_vars, scheduler_initialized, ready_queue_head,
                   ready_queue_tail, blocked_list, next_strand_id, strand_vars,
                   io_vars, io_initialized, error, log_vars>>

\* ------------------------------------------------------------------- Next
InitialStacks == {NoStack}

\* What the caller may spawn next.
CallerEntries ==
    IF next_strand_id <= 1 THEN EntryFuncs ELSE EntryFuncs \ MainEntryFuncs

Next ==
    \/ scheduler_init
    \/ scheduler_shutdown
    \/ \E e \in CallerEntries, v \in InitialStacks : strand_spawn(e, v)
    \/ scheduler_run_enter
    \/ Dispatch
    \/ ReactorWait
    \/ Reap
    \/ scheduler_run_exit
    \/ record
    \/ strand_spawn_child
    \/ strand_push_cleanup
    \/ strand_pop_cleanup
    \/ strand_update_cleanup_arg
    \/ strand_yield
    \/ write_line
    \/ read_line
    \/ strand_entry_trampoline
    \/ scheduler_shutdown_in_strand
    \/ \E f \in {<<STDOUT_FILENO, "write">>, <<STDIN_FILENO, "read">>} :
          FdBecomesReady(f[1], f[2])

Spec == Init /\ [][Next]_vars

\* ------------------------------------------- the ready queue driven directly
\* ready_queue_push, ready_queue_pop and ready_queue_is_empty are exported
\* (scheduler.h, "exposed for testing"). Here they are called directly, in any
\* order, on strand records that are not in the queue when they are pushed
\* (a strand has one next field, so it is in one list at a time).
InitQueue ==
    /\ platform \in {"kqueue", "epoll"}
    /\ pc = "queue"
    /\ scheduler_initialized = TRUE
    /\ ready_queue_head = NULL /\ ready_queue_tail = NULL /\ blocked_list = NULL
    /\ current_strand = NULL
    /\ next_strand_id = 1
    /\ live = StrandIds
    /\ state = [s \in StrandIds |-> "READY"]
    /\ stack = [s \in StrandIds |-> NoStack]
    /\ cleanup_handlers = [s \in StrandIds |-> <<>>]
    /\ blocked_fd = [s \in StrandIds |-> -1]
    /\ next = [s \in StrandIds |-> NULL]
    /\ entry_func = [s \in StrandIds |-> ""]
    /\ ip = [s \in StrandIds |-> 1]
    /\ local_stack = [s \in StrandIds |-> NoStack]
    /\ io_left = [s \in StrandIds |-> 0]
    /\ stack_meta = [s \in StrandIds |-> NoMeta]
    /\ subs = {}
    /\ fd_ready = {}
    /\ io_initialized = FALSE
    /\ run_returned = FALSE /\ run_result = NoStack
    /\ error = ""
    /\ execution_order = <<>> /\ cleanup_log = <<>> /\ spawn_log = <<>>
    /\ queue_trace = <<>>
    /\ free_log = <<>>
    /\ entry_returned = [s \in StrandIds |-> [done |-> FALSE, stack |-> NoStack]]
    /\ context = [s \in StrandIds |-> NoContext]
    /\ mem = <<>>
    /\ fault = NoFault
    /\ stack_call = NoCall
    /\ io_buf = [s \in StrandIds |-> NULL]
    /\ io_entry = [s \in StrandIds |-> <<>>]
    /\ dispatch_count = [s \in StrandIds |-> 0]
    /\ yield_count = [s \in StrandIds |-> 0]
    /\ cycle = 0
    /\ last_call = NoApiCall

QueuePush(s) ==
    /\ pc = "queue"
    /\ Len(queue_trace) < MaxQueueOps
    /\ s \notin ReadySet
    /\ SetLinks(ready_queue_push(Links, s))
    /\ queue_trace' = Append(queue_trace, [op |-> "push", strand |-> s])
    /\ UNCHANGED <<platform, api_vars, cstack_vars, pc, scheduler_initialized, current_strand,
                   next_strand_id, live, state, stack, cleanup_handlers,
                   blocked_fd, entry_func, ip, local_stack, io_left, stack_meta,
                   io_vars, io_initialized, run_returned, run_result, error,
                   execution_order, cleanup_log, spawn_log, entry_returned, free_log>>

QueuePop ==
    /\ pc = "queue"
    /\ Len(queue_trace) < MaxQueueOps
    /\ SetLinks(ready_queue_pop(Links))
    /\ queue_trace' = Append(queue_trace, [op |-> "pop", strand |-> PoppedStrand(Links)])
    /\ UNCHANGED <<platform, api_vars, cstack_vars, pc, scheduler_initialized, current_strand,
                   next_strand_id, live, state, stack, cleanup_handlers,
                   blocked_fd, entry_func, ip, local_stack, io_left, stack_meta,
                   io_vars, io_initialized, run_returned, run_result, error,
                   execution_order, cleanup_log, spawn_log, entry_returned, free_log>>

NextQueue ==
    \/ \E s \in StrandIds \cup {NULL} : QueuePush(s)
    \/ QueuePop

SpecQueue == InitQueue /\ [][NextQueue]_vars

\* ------------------------------------------------------- stack test runs
\* A third specification: the stack calls made directly, as the stack tests
\* make them, on the one strand a test builds to own a C stack and a saved
\* context.
StackStrands == {1}

InitStack ==
    /\ platform \in {"kqueue", "epoll"}
    /\ pc = "stack"
    /\ scheduler_initialized = TRUE
    /\ ready_queue_head = NULL /\ ready_queue_tail = NULL /\ blocked_list = NULL
    /\ current_strand = NULL
    /\ next_strand_id = 1
    /\ live = {}
    /\ state = [s \in StrandIds |-> "UNALLOCATED"]
    /\ stack = [s \in StrandIds |-> NoStack]
    /\ cleanup_handlers = [s \in StrandIds |-> <<>>]
    /\ blocked_fd = [s \in StrandIds |-> -1]
    /\ next = [s \in StrandIds |-> NULL]
    /\ entry_func = [s \in StrandIds |-> ""]
    /\ ip = [s \in StrandIds |-> 1]
    /\ local_stack = [s \in StrandIds |-> NoStack]
    /\ io_left = [s \in StrandIds |-> 0]
    /\ stack_meta = [s \in StrandIds |-> NoMeta]
    /\ subs = {}
    /\ fd_ready = {}
    /\ io_initialized = FALSE
    /\ run_returned = FALSE /\ run_result = NoStack
    /\ error = ""
    /\ execution_order = <<>> /\ cleanup_log = <<>> /\ spawn_log = <<>>
    /\ queue_trace = <<>>
    /\ free_log = <<>>
    /\ entry_returned = [s \in StrandIds |-> [done |-> FALSE, stack |-> NoStack]]
    /\ context = [s \in StrandIds |-> NoContext]
    /\ mem = <<>>
    /\ fault = NoFault
    /\ stack_call = NoCall
    /\ io_buf = [s \in StrandIds |-> NULL]
    /\ io_entry = [s \in StrandIds |-> <<>>]
    /\ dispatch_count = [s \in StrandIds |-> 0]
    /\ yield_count = [s \in StrandIds |-> 0]
    /\ cycle = 0
    /\ last_call = NoApiCall

\* What is left alone by every stack call.
StackFrame ==
    UNCHANGED <<platform, api_vars, scheduler_initialized, ready_queue_head,
                ready_queue_tail, blocked_list, next_strand_id, live, state,
                stack, cleanup_handlers, blocked_fd, next, entry_func, ip,
                local_stack, io_left, io_vars, io_initialized, run_returned,
                run_result, log_vars>>

\* The sizes the tests and the runtime ask stack_alloc for.
AllocSizes ==
    {1024, CEM_INITIAL_STACK_SIZE, 8192, 20000, CEM_MAX_STACK_SIZE,
     CEM_MAX_STACK_SIZE + 1, SIZE_MAX - 1000}

\* meta = stack_alloc(size) for strand s, and the first context made on it.
StackAlloc(s, size, base) ==
    /\ pc = "stack"
    /\ stack_meta[s] = NoMeta
    /\ LET meta == stack_alloc(size, base)
       IN /\ stack_meta' = [stack_meta EXCEPT ![s] = meta]
          /\ context' = [context EXCEPT ![s] =
                           IF meta = NoMeta THEN NoContext ELSE cem_makecontext(meta)]
          /\ stack_call' = [op |-> "stack_alloc", strand |-> s, arg |-> size,
                            result |-> IF meta = NoMeta THEN "NULL" ELSE "meta",
                            used |-> 0, free |-> 0]
    /\ UNCHANGED <<pc, error, current_strand, mem, fault>>
    /\ StackFrame

\* stack_free(meta): munmap of the whole region, guard page included.
StackFree(s) ==
    /\ pc = "stack"
    /\ stack_meta[s] # NoMeta
    /\ stack_meta' = [stack_meta EXCEPT ![s] = NoMeta]
    /\ context' = [context EXCEPT ![s] = NoContext]
    /\ mem' = Unmap(mem, stack_meta[s])
    /\ stack_call' = [op |-> "stack_free", strand |-> s, arg |-> 0,
                      result |-> "", used |-> 0, free |-> 0]
    /\ UNCHANGED <<pc, error, current_strand, fault>>
    /\ StackFrame

\* How deep below its stack top a strand is when it is switched out.
Depths(meta) ==
    {16, SuspendedFrameBytes, (meta.usable_size * 4) \div 5,
     meta.usable_size - 1024, meta.usable_size}

\* The bytes a strand that ran down to sp leaves on its stack: one at the top
\* of the stack, one at sp, and a dead one below sp.
FrameBytes(meta, sp) ==
    LET at == {StackTop(meta) - 1, sp} \cup
                 (IF sp > meta.usable_base THEN {sp - 1} ELSE {})
    IN [a \in at |-> IF a = sp - 1 THEN 239
                     ELSE IF a = sp THEN 171 ELSE 205]

\* Strand s runs on its stack and is switched out: cem_swapcontext saves its
\* sp and x29. x29 is a frame pointer above sp, or a value that is no address
\* of the stack.
SwitchOut(s, depth, fp_in_stack) ==
    /\ pc = "stack"
    /\ stack_meta[s] # NoMeta
    /\ LET meta == stack_meta[s]
           sp == StackTop(meta) - depth
           fp == IF ~fp_in_stack THEN 0
                 ELSE IF sp + 16 <= StackTop(meta) THEN sp + 16 ELSE sp
           frame == FrameBytes(meta, sp)
           rest == Unmap(mem, meta)
       IN /\ context' = [context EXCEPT ![s] = [sp |-> sp, x29 |-> fp]]
          /\ mem' = [a \in DOMAIN rest \cup DOMAIN frame |->
                        IF a \in DOMAIN frame THEN frame[a] ELSE rest[a]]
    /\ current_strand' = NULL
    /\ UNCHANGED <<pc, error, stack_meta, fault, stack_call>>
    /\ StackFrame

\* The sizes stack_grow is asked for.
GrowSizes(meta) ==
    {CEM_INITIAL_STACK_SIZE, meta.usable_size, meta.usable_size + 1,
     meta.usable_size * 2, CEM_MAX_STACK_SIZE + 1, SIZE_MAX - 1000}

\* The outcome r of a growth of strand s, reported as call op.
GrowthOutcome(s, r, op, arg) ==
    /\ stack_meta' = [stack_meta EXCEPT ![s] = r.meta]
    /\ context' = [context EXCEPT ![s] = r.context]
    /\ mem' = r.mem
    /\ stack_call' = [op |-> op, strand |-> s, arg |-> arg, result |-> r.result,
                      used |-> 0, free |-> 0]
    /\ IF r.result = "abort"
       THEN pc' = "fatal" /\ error' = "abort"
       ELSE UNCHANGED <<pc, error>>

\* stack_grow(strand, new_usable_size, false)
StackGrow(s, new_usable_size, base) ==
    /\ pc = "stack"
    /\ stack_meta[s] # NoMeta
    /\ stack_meta[s].growth_count < MaxGrowths
    /\ GrowthOutcome(s, stack_grow(stack_meta[s], context[s], mem,
                                   new_usable_size, base),
                     "stack_grow", new_usable_size)
    /\ UNCHANGED <<current_strand, fault>>
    /\ StackFrame

\* stack_check_and_grow(strand, saved sp), as a context switch calls it.
StackCheckAndGrow(s, base) ==
    /\ pc = "stack"
    /\ stack_meta[s] # NoMeta
    /\ stack_meta[s].growth_count < MaxGrowths
    /\ GrowthOutcome(s, stack_check_and_grow(stack_meta[s], context[s], mem, base),
                     "stack_check_and_grow", context[s].sp)
    /\ UNCHANGED <<current_strand, fault>>
    /\ StackFrame

\* The values of current_sp the usage functions are asked about.
UsageSps(meta) ==
    {StackTop(meta), StackTop(meta) - 1024, meta.usable_base,
     meta.usable_base - 1, meta.base, StackTop(meta) + 1, 0}

\* stack_get_used(meta, sp) and stack_get_free(meta, sp)
StackUsage(s, sp) ==
    /\ pc = "stack"
    /\ stack_meta[s] # NoMeta
    /\ stack_call' = [op |-> "stack_get_used", strand |-> s, arg |-> sp,
                      result |-> "",
                      used |-> stack_get_used(stack_meta[s], sp),
                      free |-> stack_get_free(stack_meta[s], sp)]
    /\ UNCHANGED <<pc, error, current_strand, stack_meta, context, mem, fault>>
    /\ StackFrame

\* The address a is in the usable part of a stack mapped in metas.
MappedUsable(a, metas) ==
    \E x \in DOMAIN metas :
        /\ metas[x] # NoMeta
        /\ metas[x].usable_base <= a /\ a < StackTop(metas[x])

\* The addresses a running strand faults at: in its guard page, and outside
\* every mapping.
FaultAddrs(meta) ==
    {meta.base, meta.base + meta.guard_page_size - 8, meta.base - 8, 8}

\* Strand s is running at live_sp and an access to addr raises SIGSEGV:
\* stack_sigsegv_handler as a whole, and what follows its return. The handler
\* has no alternate stack, so the kernel delivers the signal only if its
\* frame fits on the strand's stack; the handler and the retried instruction
\* run with the registers of the interrupted strand, which the handler does
\* not touch.
stack_sigsegv_handler(s, live_sp, addr, base) ==
    /\ pc \in {"stack", "strand"}
    /\ stack_meta[s] # NoMeta
    /\ stack_meta[s].growth_count < MaxGrowths
    /\ live_sp <= StackTop(stack_meta[s])
    /\ current_strand' = s
    /\ LET meta == stack_meta[s]
           delivered == live_sp - SignalFrameBytes >= meta.usable_base
           is_guard == stack_is_guard_page_fault(addr, meta)
           hit == [meta EXCEPT !.guard_hit = TRUE]
           r == stack_grow(hit, context[s], mem, meta.usable_size * 2, base)
           grew == delivered /\ is_guard /\ r.result = "true"
           after == IF grew THEN [stack_meta EXCEPT ![s] = r.meta]
                    ELSE IF delivered /\ is_guard
                         THEN [stack_meta EXCEPT ![s] = hit]
                    ELSE stack_meta
           resumes == /\ grew
                      /\ MappedUsable(live_sp - SignalFrameBytes, after)
                      /\ MappedUsable(addr, after)
       IN /\ stack_meta' = after
          /\ context' = IF grew THEN [context EXCEPT ![s] = r.context] ELSE context
          /\ mem' = IF grew THEN r.mem ELSE mem
          /\ fault' = [strand |-> s, addr |-> addr,
                       handled |-> delivered /\ is_guard, grew |-> grew,
                       retry_valid |-> resumes]
          /\ IF resumes THEN UNCHANGED <<pc, error>>
             ELSE IF delivered /\ is_guard /\ r.result = "abort"
                  THEN pc' = "fatal" /\ error' = "abort"
             ELSE runtime_fault
    /\ UNCHANGED stack_call
    /\ StackFrame

\* The addresses code outside every strand (the scheduler loop, the driving
\* code) faults at: anywhere, the guard page of a suspended strand included.
NoStrandFaultAddrs ==
    {8} \cup {stack_meta[s].base : s \in {x \in StackStrands : stack_meta[x] # NoMeta}}

\* SIGSEGV at addr while g_scheduler->current_strand is NULL: the handler
\* skips the guard-page test, restores SIG_DFL and raises SIGSEGV again.
stack_sigsegv_no_strand(addr) ==
    /\ pc = "stack"
    /\ current_strand' = NULL
    /\ fault' = [strand |-> NULL, addr |-> addr, handled |-> FALSE,
                 grew |-> FALSE, retry_valid |-> FALSE]
    /\ runtime_fault
    /\ UNCHANGED <<stack_meta, context, mem, stack_call>>
    /\ StackFrame

NextStack ==
    \/ \E s \in StackStrands, size \in AllocSizes, base \in mmap(stack_meta) :
          StackAlloc(s, size, base)
    \/ \E s \in StackStrands : StackFree(s)
    \/ \E s \in StackStrands, f \in BOOLEAN :
          \E depth \in Depths(stack_meta[s]) : SwitchOut(s, depth, f)
    \/ \E s \in StackStrands, base \in mmap(stack_meta) :
          \E n \in GrowSizes(stack_meta[s]) : StackGrow(s, n, base)
    \/ \E s \in StackStrands, base \in mmap(stack_meta) : StackCheckAndGrow(s, base)
    \/ \E s \in StackStrands : \E sp \in UsageSps(stack_meta[s]) : StackUsage(s, sp)
    \/ \E s \in StackStrands, base \in mmap(stack_meta) :
          \E d \in Depths(stack_meta[s]), addr \in FaultAddrs(stack_meta[s]) :
             stack_sigsegv_handler(s, StackTop(stack_meta[s]) - d, addr, base)
    \/ \E addr \in NoStrandFaultAddrs : stack_sigsegv_no_strand(addr)

SpecStack == InitStack /\ [][NextStack]_vars

\* ================================================================== claims
\* The queue a first-in first-out discipline leaves after the calls of t.
RECURSIVE FifoAfter(_)
FifoAfter(t) ==
    IF t = <<>> THEN <<>>
    ELSE LET q == FifoAfter(SubSeq(t, 1, Len(t) - 1))
             e == t[Len(t)]
         IN IF e.op = "push"
            THEN (IF e.strand = NULL THEN q ELSE Append(q, e.strand))
            ELSE (IF q = <<>> THEN q ELSE Tail(q))

\* C1: whatever pushes and pops were made, every pop returned the strand
\* pushed earliest among those still queued, a pop on an empty queue returned
\* NULL, and the queue holds the strands pushed and not yet popped, in the
\* order they were pushed (so it is empty after a pop on an empty queue).
C1_QueueFifo ==
    /\ \A i \in 1..Len(queue_trace) :
          queue_trace[i].op = "pop" =>
             LET before == FifoAfter(SubSeq(queue_trace, 1, i - 1))
             IN queue_trace[i].strand =
                   (IF before = <<>> THEN NULL ELSE Head(before))
    /\ ReadySeq = FifoAfter(queue_trace)
    /\ ready_queue_is_empty <=> FifoAfter(queue_trace) = <<>>
    /\ ready_queue_is_empty => ready_queue_tail = NULL

\* Two strands pushed, a pop between further calls, and a pop on the empty
\* queue at the end.
C1_Witness ==
    /\ Len(queue_trace) = 6
    /\ queue_trace[1] = [op |-> "push", strand |-> 2]
    /\ queue_trace[2] = [op |-> "push", strand |-> 1]
    /\ queue_trace[3] = [op |-> "pop", strand |-> 2]
    /\ queue_trace[4] = [op |-> "push", strand |-> 3]
    /\ queue_trace[5] = [op |-> "pop", strand |-> 1]
    /\ queue_trace[6].op = "pop"
    /\ ready_queue_is_empty

\* ---------------------------------------------------------------- C2
\* The strands in front of y in the queue q.
StrandsBefore(q, y) ==
    {q[i] : i \in {j \in 1..Len(q) : \E k \in (j + 1)..Len(q) : q[k] = y}}

\* C2: a strand that yields becomes YIELDED and goes to the tail of the ready
\* queue, behind every strand that is ready at that moment; from then on a
\* strand in front of a queued strand leaves that place only by being
\* dispatched, and a strand is dispatched only when no strand is in front of
\* it. So all strands ready at the yield run before the yielder runs again.
C2_YieldOrder ==
    [][ /\ (Running /\ CurOp.op = "yield" /\ pc' = "sched") =>
              /\ state'[current_strand] = "YIELDED"
              /\ ReadySeq' = Append(ReadySeq, current_strand)
        /\ \A y \in ReadySet :
              /\ y \in ReadySet' =>
                    /\ StrandsBefore(ReadySeq', y) \subseteq StrandsBefore(ReadySeq, y)
                    /\ \A a \in StrandsBefore(ReadySeq, y) \ StrandsBefore(ReadySeq', y) :
                          current_strand' = a /\ state'[a] = "RUNNING"
              /\ (y \notin ReadySet' /\ state'[y] = "RUNNING") =>
                    StrandsBefore(ReadySeq, y) = {}
      ]_vars

\* Strand 1 yielded while strand 2 was ready, strand 2 ran, and strand 1 is
\* running again past its yield.
C2_Witness ==
    /\ Running /\ current_strand = 1
    /\ entry_func[1] = "strand_a" /\ ip[1] = 3
    /\ execution_order = <<[strand |-> 1, v |-> 1], [strand |-> 2, v |-> 1]>>

\* ---------------------------------------------------------------- C3
\* C3: when strand 1 has completed and the ready queue and the blocked list
\* are empty, the next step is scheduler_run returning the value stack the
\* entry function of strand 1 returned.
C3_MainResult ==
    [][ (pc = "completed" /\ current_strand = 1 /\ ready_queue_is_empty
           /\ blocked_list = NULL)
        => (pc' = "returned" /\ run_returned' /\ run_result' = local_stack[1])
      ]_vars

\* scheduler_run returned the stack on which the main strand left the line
\* it read.
C3_Witness ==
    /\ pc = "returned" /\ run_returned
    /\ run_result = <<"line">>
    /\ spawn_log[1].entry = "echo_strand"

\* ---------------------------------------------------------------- C4
Reverse(q) == [i \in 1..Len(q) |-> q[Len(q) + 1 - i]]

\* The handler invocations logged for strand s, in order.
InvokedFor(s) == SelectSeq(cleanup_log, LAMBDA x : x.strand = s)

\* A body that registers handlers and neither pops nor updates one.
NoPopBody(body) ==
    \A i \in 1..Len(body) :
       body[i].op \in {"push_cleanup", "record", "yield", "spawn"}

\* The registrations of a body, last first, as invocations on behalf of s.
ExpectedLifo(s, body) ==
    LET p == Reverse(SelectSeq(body, LAMBDA o : o.op = "push_cleanup"))
    IN [i \in 1..Len(p) |-> [strand |-> s, func |-> p[i].func, arg |-> p[i].arg]]

\* The strand was freed after it ran to completion (not destroyed before).
CompletedAndFreed(s) == entry_returned[s].done /\ s \notin live

\* C4: for every strand whose entry function pushes handlers H1..Hn and pops
\* none: no handler of it is invoked while the strand exists, and once it
\* has completed and been freed the invocations made for it are exactly
\* Hn, ..., H1, each once, each with the argument it was registered with.
\* This holds for each such strand separately when several are spawned.
C4_CleanupLifo ==
    \A s \in 1..Len(spawn_log) :
       LET body == EntryBody(spawn_log[s].entry) IN
       NoPopBody(body) =>
          /\ s \in live => InvokedFor(s) = <<>>
          /\ CompletedAndFreed(s) => InvokedFor(s) = ExpectedLifo(s, body)

\* Two strands that each pushed three handlers have completed.
C4_Witness ==
    /\ pc = "returned"
    /\ Len(spawn_log) >= 2
    /\ spawn_log[1].entry = "strand_basic_cleanup"
    /\ spawn_log[2].entry = "strand_basic_cleanup"
    /\ InvokedFor(1) = <<[strand |-> 1, func |-> "cleanup_3", arg |-> 0],
                         [strand |-> 1, func |-> "cleanup_2", arg |-> 0],
                         [strand |-> 1, func |-> "cleanup_1", arg |-> 0]>>
    /\ Len(InvokedFor(2)) = 3

C6_BlockedWriterWoken ==
    [][ (pc = "sched" /\ ready_queue_is_empty /\ blocked_list # NULL
           /\ ~ready_queue_is_empty')
        => \A s \in StrandIds :
              (state[s] = "BLOCKED_WRITE" /\ <<blocked_fd[s], "write">> \in fd_ready)
              => (s \notin BlockedSet' /\ state'[s] = "READY" /\ s \in ReadySet')
      ]_vars

\* ---------------------------------------------------------------- C7
\* The strand has a registration that can still wake it.
CanBeWoken(s) ==
    \E r \in subs : r.armed /\ r.strand = s /\ r.fd = blocked_fd[s]

\* C7: when two strands are blocked on write for the same descriptor at the
\* same time, the process has not ended in a registration error and each of
\* the two has a registration that will wake it (so neither stays blocked
\* forever and neither registration makes the other fail).
C7_BothWritersProceed ==
    \A a, b \in StrandIds :
       (a # b /\ state[a] = "BLOCKED_WRITE" /\ state[b] = "BLOCKED_WRITE"
          /\ blocked_fd[a] = blocked_fd[b])
       => (pc # "fatal" /\ CanBeWoken(a) /\ CanBeWoken(b))

\* ---------------------------------------------------------------- C8
\* C8: at most one strand is RUNNING, and a RUNNING strand is the scheduler's
\* current strand.
C8_OneRunning ==
    /\ Cardinality({s \in StrandIds : state[s] = "RUNNING"}) <= 1
    /\ \A s \in StrandIds : state[s] = "RUNNING" => current_strand = s

\* A strand is running while another is blocked and a third has yielded.
C8_Witness ==
    \E s, t, u \in StrandIds :
       /\ state[s] = "RUNNING" /\ current_strand = s
       /\ state[t] = "BLOCKED_WRITE"
       /\ state[u] = "YIELDED"

\* ---------------------------------------------------------------- C9
\* The calls in which a strand can hand control to the scheduler: a yield, a
\* read or write that blocks (strand_block_on_read / strand_block_on_write),
\* and the return of the entry function.
SwitchingOps == {"yield", "read_line", "write_line", "return"}

NonSwitchingOps == {"spawn", "push_cleanup", "pop_cleanup", "update_cleanup_arg"}

\* C9: while a strand runs, control reaches the scheduler (the current strand
\* changes, or the scheduler loop or the completion path is entered) only
\* from a yield, a blocking read or write, or the return of the entry
\* function; and a step taken while the strand is at strand_spawn,
\* strand_push_cleanup, strand_pop_cleanup or strand_update_cleanup_arg
\* leaves it the current strand, leaves its state as it was, stays in the
\* strand (or ends the process) and makes no other strand RUNNING.
C9_SwitchPoints ==
    [][ Running =>
          /\ (current_strand' # current_strand \/ pc' \in {"sched", "completed"})
                => CurOp.op \in SwitchingOps
          /\ CurOp.op \in NonSwitchingOps =>
                /\ current_strand' = current_strand
                /\ state'[current_strand] = state[current_strand]
                /\ pc' \in {"strand", "fatal"}
                /\ \A t \in StrandIds : state'[t] = "RUNNING" => t = current_strand
      ]_vars

\* A strand spawned by a running strand has registered a handler and updated
\* its argument and is still the running strand; its parent waits in the
\* queue.
C9_Witness ==
    /\ Running
    /\ Len(spawn_log) >= current_strand
    /\ spawn_log[current_strand].parent # NULL
    /\ cleanup_handlers[current_strand] = <<[func |-> "cleanup_free_int", arg |-> 99]>>
    /\ state[spawn_log[current_strand].parent] = "YIELDED"

\* ---------------------------------------------------------------- C10
IsPrefix(a, b) == Len(a) <= Len(b) /\ SubSeq(b, 1, Len(a)) = a

\* The trace of three strands A, B, C (ids 1, 2, 3) of strand_a.
ThreeStrandsTrace ==
    <<[strand |-> 1, v |-> 1], [strand |-> 2, v |-> 1], [strand |-> 3, v |-> 1],
      [strand |-> 1, v |-> 2], [strand |-> 2, v |-> 2], [strand |-> 3, v |-> 2]>>

\* C10: when exactly three strands were spawned, each recording a first
\* marker, yielding once and recording a second marker, the trace grows as
\* first markers of A, B, C then second markers of A, B, C, and it is exactly
\* these six entries once scheduler_run has returned.
C10_ThreeStrandsOrder ==
    (pc # "caller" /\ Len(spawn_log) = 3
       /\ \A i \in 1..3 : spawn_log[i].entry = "strand_a")
    => /\ IsPrefix(execution_order, ThreeStrandsTrace)
       /\ run_returned => execution_order = ThreeStrandsTrace

\* The run of the three strands has returned with all six markers recorded.
C10_Witness ==
    /\ run_returned
    /\ Len(spawn_log) = 3
    /\ execution_order = ThreeStrandsTrace

\* ---------------------------------------------------------------- C11
\* C11: once scheduler_run has returned from a run in which strand 1 ran to
\* completion, the value it returned is the stack that the entry function of
\* strand 1 returned.
C11_MainStrandResult ==
    (run_returned /\ entry_returned[1].done)
    => run_result = entry_returned[1].stack

\* ---------------------------------------------------------------- C12
\* C12: a step in which scheduler_run returns ends with the ready queue and
\* the blocked list empty; and when no strand was ever spawned, the first
\* step of the loop is the return of NULL: no strand is made current or
\* RUNNING and no reactor registration or readiness is touched.
C12_ReturnsWhenEmpty ==
    [][ /\ (~run_returned /\ run_returned') =>
              /\ pc' = "returned"
              /\ ready_queue_is_empty' /\ ready_queue_tail' = NULL
              /\ blocked_list' = NULL
              /\ ReadySet' = {} /\ BlockedSet' = {}
        /\ (pc = "sched" /\ spawn_log = <<>>) =>
              /\ pc' = "returned" /\ run_returned'
              /\ run_result' = NoStack
              /\ current_strand' = NULL
              /\ UNCHANGED <<state, live, subs, fd_ready, execution_order>>
      ]_vars

\* scheduler_run has returned NULL on a scheduler on which nothing was
\* spawned.
C12_Witness ==
    /\ pc = "returned" /\ run_returned
    /\ spawn_log = <<>>
    /\ run_result = NoStack
    /\ scheduler_initialized

\* ---------------------------------------------------------------- C13
\* C13: a strand_update_cleanup_arg(new_arg) that returns leaves the running
\* strand's list with the same length, its head with the same function and
\* the argument new_arg, every other handler of the list and every list of
\* another strand as it was, and invokes nothing. A strand that pushes
\* cleanup_1(1), pushes cleanup_free_int(42) and updates the argument to 99 has,
\* once it completed and was freed, exactly the invocations
\* cleanup_free_int(99), cleanup_1(1); cleanup_free_int(42) is never invoked
\* for it.
C13_UpdateArg ==
    [][ /\ (Running /\ CurOp.op = "update_cleanup_arg"
              /\ cleanup_handlers[current_strand] # <<>> /\ ip' # ip) =>
              LET h == cleanup_handlers[current_strand]
                  g == cleanup_handlers'[current_strand]
              IN /\ Len(g) = Len(h)
                 /\ g[1] = [func |-> h[1].func, arg |-> CurOp.arg]
                 /\ \A i \in 2..Len(h) : g[i] = h[i]
                 /\ \A s \in StrandIds \ {current_strand} :
                       cleanup_handlers'[s] = cleanup_handlers[s]
                 /\ cleanup_log' = cleanup_log
                 /\ pc' = pc
        /\ \A s \in 1..Len(spawn_log') :
              spawn_log'[s].entry = "strand_nested_update" =>
                 /\ \A i \in 1..Len(cleanup_log') :
                       cleanup_log'[i] # [strand |-> s, func |-> "cleanup_free_int",
                                          arg |-> 42]
                 /\ (entry_returned'[s].done /\ s \notin live') =>
                       SelectSeq(cleanup_log', LAMBDA x : x.strand = s) =
                          <<[strand |-> s, func |-> "cleanup_free_int", arg |-> 99],
                            [strand |-> s, func |-> "cleanup_1", arg |-> 1]>>
      ]_vars

\* The strand with two handlers updated the newer one, completed, and both
\* handlers have run.
C13_Witness ==
    /\ Len(spawn_log) >= 1
    /\ spawn_log[1].entry = "strand_nested_update"
    /\ entry_returned[1].done /\ 1 \notin live
    /\ InvokedFor(1) = <<[strand |-> 1, func |-> "cleanup_free_int", arg |-> 99],
                         [strand |-> 1, func |-> "cleanup_1", arg |-> 1]>>

\* ---------------------------------------------------------------- C14
\* The strands scheduler_shutdown finds: the ready queue, the blocked list,
\* the current strand.
HeldStrands ==
    ReadySet \cup BlockedSet \cup (IF current_strand # NULL THEN {current_strand}
                                   ELSE {})

\* A step of scheduler_shutdown on an initialised scheduler, called by the
\* driving code or by a running strand.
ShutdownStep ==
    /\ scheduler_initialized
    /\ \/ pc \in {"caller", "returned"} /\ pc' = "exited"
       \/ Running /\ CurOp.op = "shutdown" /\ pc' # pc

\* The invocations the step added to the log.
AddedInvocations ==
    SubSeq(cleanup_log', Len(cleanup_log) + 1, Len(cleanup_log'))

\* C14: scheduler_shutdown releases every strand held in the ready queue, in
\* the blocked list or as current strand; the invocations it makes for each
\* of them are that strand's remaining handlers, newest first, each once;
\* nothing is invoked for any other strand; and afterwards the ready queue,
\* the blocked list and the current strand are all empty.
C14_ShutdownDestroysAll ==
    [][ ShutdownStep =>
          /\ \A s \in HeldStrands :
                /\ s \notin live'
                /\ SelectSeq(AddedInvocations, LAMBDA x : x.strand = s) =
                      [i \in 1..Len(cleanup_handlers[s]) |->
                          [strand |-> s, func |-> cleanup_handlers[s][i].func,
                           arg |-> cleanup_handlers[s][i].arg]]
          /\ \A i \in 1..Len(AddedInvocations) :
                AddedInvocations[i].strand \in HeldStrands
          /\ ready_queue_is_empty' /\ blocked_list' = NULL
          /\ current_strand' = NULL
      ]_vars

\* C15: whenever a strand has faulted in its guard page and the emergency
\* stack_grow in the signal handler has succeeded, the handler's return and the
\* retried access land in mapped stack memory and the strand goes on running
\* (the process is not killed).
C15_GuardFaultRecovers ==
    (fault.handled /\ fault.grew) => (fault.retry_valid /\ pc # "fatal")

\* C16: guard_hit of a strand's stack is false as long as no guard-page fault
\* of the strand has been handled, and true in every state after one has been
\* handled, also when the handler has grown the stack.
C16_GuardHitSticky ==
    \A s \in StackStrands :
        stack_meta[s] # NoMeta =>
            (stack_meta[s].guard_hit <=> (fault.handled /\ fault.strand = s))

\* C17: every call of stack_get_used / stack_get_free on a stack returns used
\* and free with used + free = usable_size and 0 <= used <= usable_size; for a
\* stack pointer inside [usable_base, top] used is top - sp, and for one
\* outside that range used is usable_size and free is 0.
C17_UsedPlusFree ==
    [][(stack_call'.op = "stack_get_used" /\ stack_call' # stack_call) =>
          LET meta == stack_meta[stack_call'.strand]
              sp == stack_call'.arg
              used == stack_call'.used
              free == stack_call'.free
              in_range == meta.usable_base <= sp /\ sp <= StackTop(meta)
          IN /\ used + free = meta.usable_size
             /\ 0 <= used /\ used <= meta.usable_size
             /\ in_range => used = StackTop(meta) - sp
             /\ ~in_range => (used = meta.usable_size /\ free = 0)]_vars

\* A usage query with a stack pointer below the usable region has been
\* answered "all used, none free".
C17_Witness ==
    /\ stack_call.op = "stack_get_used"
    /\ stack_meta[stack_call.strand] # NoMeta
    /\ stack_call.arg = stack_meta[stack_call.strand].usable_base - 1
    /\ stack_call.used = stack_meta[stack_call.strand].usable_size
    /\ stack_call.free = 0

\* Strand s has just had its stack grown (by a direct call, at a checkpoint or
\* in the signal handler).
Grown(s) ==
    /\ stack_meta[s] # NoMeta /\ stack_meta'[s] # NoMeta
    /\ stack_meta'[s].growth_count = stack_meta[s].growth_count + 1

WellFormed(meta) ==
    /\ meta.usable_size % stack_get_page_size = 0
    /\ meta.guard_page_size = stack_get_page_size
    /\ meta.total_size = meta.usable_size + meta.guard_page_size
    /\ meta.usable_base = meta.base + stack_get_page_size
    /\ CEM_INITIAL_STACK_SIZE <= meta.usable_size
    /\ meta.usable_size <= CEM_MAX_STACK_SIZE

\* C19: after any sequence of stack_alloc and stack_grow calls every live
\* stack has a usable size that is a multiple of the page size and lies
\* between CEM_INITIAL_STACK_SIZE and CEM_MAX_STACK_SIZE, a guard of exactly
\* one page, total_size = usable_size + guard_page_size and usable_base =
\* base + page size; a freshly allocated stack has growth_count 0 and guard_hit
\* false.
C19_MetadataLayout ==
    [][\A s \in StackStrands : stack_meta'[s] # NoMeta =>
          /\ WellFormed(stack_meta'[s])
          /\ stack_meta[s] = NoMeta =>
                (stack_meta'[s].growth_count = 0 /\ ~stack_meta'[s].guard_hit)]_vars

\* stack_grow has succeeded with a requested size that is no multiple of the
\* page size, and the new stack has that size rounded up.
C19_Witness ==
    /\ stack_call.op = "stack_grow" /\ stack_call.result = "true"
    /\ stack_call.arg % stack_get_page_size # 0
    /\ stack_meta[stack_call.strand].usable_size = RoundUpToPage(stack_call.arg)
    /\ stack_meta[stack_call.strand].growth_count >= 1

\* C20: a stack_grow call whose requested size is not greater than the
\* current usable size, or exceeds CEM_MAX_STACK_SIZE (SIZE_MAX - 1000 is one
\* such size), or whose allocation of the new stack fails, returns false and
\* leaves the strand's metadata (growth count included), the stack contents
\* and the saved context as they were; stack_alloc of a size above the
\* maximum returns NULL, and a normal allocation made right after such a
\* refusal succeeds when the memory can be mapped.
C20_RefusedGrowthChangesNothing ==
    [][\A s \in StackStrands, base \in mmap(stack_meta) :
          /\ \A n \in GrowSizes(stack_meta[s]) :
                (/\ StackGrow(s, n, base)
                 /\ \/ n <= stack_meta[s].usable_size
                    \/ n > CEM_MAX_STACK_SIZE
                    \/ base = MAP_FAILED)
                => /\ stack_call'.result = "false"
                   /\ UNCHANGED <<stack_meta, context, mem>>
          /\ \A size \in AllocSizes :
                (StackAlloc(s, size, base) /\ size > CEM_MAX_STACK_SIZE)
                => (stack_call'.result = "NULL" /\ stack_meta'[s] = NoMeta)
          /\ (/\ stack_call.op = "stack_alloc" /\ stack_call.result = "NULL"
              /\ stack_call.arg > CEM_MAX_STACK_SIZE
              /\ base # MAP_FAILED
              /\ StackAlloc(s, CEM_INITIAL_STACK_SIZE, base))
             => (stack_call'.result = "meta" /\ stack_meta'[s] # NoMeta)]_vars

\* A stack holding a frame was asked to grow to SIZE_MAX - 1000 and the call
\* returned false.
C20_Witness ==
    /\ stack_call.op = "stack_grow" /\ stack_call.result = "false"
    /\ stack_call.arg = SIZE_MAX - 1000
    /\ stack_meta[stack_call.strand] # NoMeta
    /\ stack_meta[stack_call.strand].growth_count = 1
    /\ ReadByte(mem, context[stack_call.strand].sp) = 171

\* The saved stack pointer of strand s lies within the usable region of its
\* current stack metadata.
SavedSpInStack(s) ==
    /\ stack_meta[s] # NoMeta
    /\ stack_meta[s].usable_base <= context[s].sp
    /\ context[s].sp <= stack_meta[s].usable_base + stack_meta[s].usable_size

\* C21: after every step, every strand that is not running, and every strand
\* the step has just dispatched (whose saved context the checkpoint has just
\* looked at and possibly moved), has its saved stack pointer within
\* [usable_base, usable_base + usable_size] of its current stack metadata: so
\* after spawn, after a yield or block, and after every checkpoint growth.
C21_SavedSpInStack ==
    [][\A s \in live' :
          (state'[s] # "RUNNING" \/ state[s] # "RUNNING" \/ s \notin live)
             => SavedSpInStack(s)']_vars

\* A strand suspended in a call, off the processor, on a stack that the
\* checkpoint has grown.
C21_Witness ==
    \E s \in live :
       /\ state[s] \in {"YIELDED", "READY", "BLOCKED_READ", "BLOCKED_WRITE"}
       /\ stack_meta[s].growth_count >= 1
       /\ context[s].sp < StackTop(stack_meta[s])
       /\ SavedSpInStack(s)

\* A step in which strand_spawn succeeded (a failed one ends the process).
SpawnStep ==
    /\ scheduler_initialized
    /\ next_strand_id' = next_strand_id + 1
    /\ pc' # "fatal"

\* C22: every successful strand_spawn takes the id next_strand_id, which is
\* the number of spawns since scheduler_init (so the ids are 1, 2, 3, ... in
\* spawn order and none repeats), and leaves the new strand READY at the tail
\* of the ready queue, behind every strand that was ready before (also when a
\* running strand spawns it), with an empty cleanup list and blocked_fd = -1.
C22_SpawnIdsAndPlacement ==
    [][SpawnStep =>
          LET id == next_strand_id IN
          /\ id = Len(spawn_log')
          /\ id \notin live /\ live' = live \cup {id}
          /\ state'[id] = "READY"
          /\ ReadySeq' = Append(ReadySeq, id)
          /\ cleanup_handlers'[id] = <<>>
          /\ blocked_fd'[id] = -1]_vars

\* A running strand has just spawned the third strand, which is queued behind
\* a strand that was ready already.
C22_Witness ==
    /\ pc = "strand" /\ current_strand # NULL
    /\ spawn_log # <<>> /\ spawn_log[Len(spawn_log)].parent = current_strand
    /\ next_strand_id = 4
    /\ Len(ReadySeq) >= 2
    /\ ReadySeq[Len(ReadySeq)] = 3
    /\ ip[3] = 1 /\ state[3] = "READY"

\* A step in which strand_spawn could not allocate the strand record or its
\* machine stack.
SpawnAllocFails == error = "" /\ error' \in StrandAllocErrors

\* C23: when the allocation of the strand record or of its machine stack
\* fails, strand_spawn reports the failure to its caller instead of ending
\* the process, and the scheduler (queues, current strand, next id, strands)
\* is left as it was before the call.
C23_SpawnFailureReported ==
    [][SpawnAllocFails =>
          /\ pc' # "fatal"
          /\ UNCHANGED <<sched_vars, strand_vars>>]_vars

\* ------------------------------------------- the API called in every way
\* The calls of scheduler.h made from outside a strand, on an initialised or
\* an uninitialised scheduler, and made by strands with invalid arguments;
\* the caller goes on after scheduler_shutdown, as the test programs do from
\* one test function to the next.
ApiEntryFuncs ==
    {"strand_test_yield", "strand_block_read", "strand_push_null",
     "strand_pop_empty", "strand_update_empty", "strand_block_read_bad_fd",
     "strand_block_write_bad_fd"}

\* The value stacks handed to test_yield and strand_spawn.
ApiStacks == {NoStack, <<"v">>}

\* The initial stacks a strand of entry function e is spawned with.
SpawnStacks(e) == IF e = "strand_test_yield" THEN ApiStacks ELSE {NoStack}

\* The calls that need a current strand.
OutsideCalls ==
    {"strand_yield", "strand_block_on_read", "strand_block_on_write",
     "strand_push_cleanup", "strand_pop_cleanup", "strand_update_cleanup_arg"}

NotInitializedError(fn) ==
    CASE fn = "strand_yield" -> "strand_yield: scheduler not initialized"
      [] fn = "strand_block_on_read" -> "strand_block_on_read: scheduler not initialized"
      [] fn = "strand_block_on_write" -> "strand_block_on_write: scheduler not initialized"
      [] fn = "strand_push_cleanup" -> "strand_push_cleanup: scheduler not initialized"
      [] fn = "strand_pop_cleanup" -> "strand_pop_cleanup: scheduler not initialized"
      [] fn = "strand_update_cleanup_arg" ->
            "strand_update_cleanup_arg: scheduler not initialized"
      [] fn = "strand_spawn" -> "strand_spawn: scheduler not initialized"
      [] fn = "scheduler_run" -> "scheduler_run: scheduler not initialized"

NoCurrentStrandError(fn) ==
    CASE fn = "strand_yield" ->
            "strand_yield: no current strand (must be called from within a strand)"
      [] fn = "strand_block_on_read" -> "strand_block_on_read: no current strand"
      [] fn = "strand_block_on_write" -> "strand_block_on_write: no current strand"
      [] fn = "strand_push_cleanup" -> "strand_push_cleanup: no current strand"
      [] fn = "strand_pop_cleanup" -> "strand_pop_cleanup: no current strand"
      [] fn = "strand_update_cleanup_arg" ->
            "strand_update_cleanup_arg: no current strand"

\* The first two checks of a call that needs a current strand, when one fails.
FirstChecks(fn) ==
    IF ~scheduler_initialized THEN NotInitializedError(fn)
    ELSE NoCurrentStrandError(fn)

\* One of OutsideCalls made by the caller, outside any strand.
CallOutsideStrand(fn) ==
    /\ pc = "caller"
    /\ current_strand = NULL
    /\ runtime_error(FirstChecks(fn))
    /\ last_call' = [op |-> fn, arg |-> NoStack, result |-> NoStack]
    /\ UNCHANGED <<platform, io_buf, io_entry, dispatch_count, yield_count, cycle,
                   cstack_vars, sched_vars, strand_vars, io_vars, io_initialized,
                   run_returned, run_result, log_vars>>

\* strand_block_on_read(fd) / strand_block_on_write(fd) called by the entry
\* function itself; the call returns after the strand is woken.
strand_block_on(filter) ==
    /\ Running
    /\ CurOp.op = (IF filter = "read" THEN "block_on_read" ELSE "block_on_write")
    /\ BlockOn(current_strand, CurOp.v, filter)
    /\ IF InvalidFd(CurOp.v) THEN UNCHANGED ip ELSE Advance(current_strand)
    /\ UNCHANGED <<platform, api_vars, mem, fault, stack_call, scheduler_initialized,
                   next_strand_id, live, stack, cleanup_handlers, entry_func,
                   local_stack, io_left, stack_meta, fd_ready, io_initialized,
                   run_returned, run_result, log_vars>>

\* if (global_scheduler.current_strand) of test_yield.
TestYieldAlways == TRUE

TestYieldInStrand == current_strand # NULL

\* test_yield(stack): yield if a strand is current, then return the stack.
test_yield(v) ==
    \/ /\ pc = "caller"
       /\ IF TestYieldInStrand
          THEN /\ runtime_error(FirstChecks("strand_yield"))
               /\ UNCHANGED last_call
          ELSE /\ last_call' = [op |-> "test_yield", arg |-> v, result |-> v]
               /\ UNCHANGED <<pc, error>>
       /\ UNCHANGED <<platform, io_buf, io_entry, dispatch_count, yield_count, cycle,
                      cstack_vars, sched_vars, strand_vars, io_vars, io_initialized,
                      run_returned, run_result, log_vars>>
    \/ /\ Running /\ CurOp.op = "test_yield"
       /\ v = local_stack[current_strand]
       /\ TestYieldInStrand
       /\ state' = [state EXCEPT ![current_strand] = "YIELDED"]
       /\ SetLinks(ready_queue_push(Links, current_strand))
       /\ current_strand' = NULL
       /\ context' = [context EXCEPT ![current_strand] = SwitchedOut(current_strand)]
       /\ yield_count' = [yield_count EXCEPT ![current_strand] = @ + 1]
       /\ Advance(current_strand)
       /\ pc' = "sched"
       /\ UNCHANGED <<platform, io_buf, io_entry, dispatch_count, cycle, last_call,
                      mem, fault, stack_call, scheduler_initialized, next_strand_id,
                      live, stack, cleanup_handlers, blocked_fd, entry_func,
                      stack_meta, local_stack, io_left, io_vars, io_initialized,
                      run_returned, run_result, error, log_vars>>

\* scheduler_shutdown has returned and the caller goes on to its next test
\* function, which starts with fresh records of what it observes.
next_test ==
    /\ pc = "exited"
    /\ cycle < MaxCycles
    /\ cycle' = cycle + 1
    /\ pc' = "caller"
    /\ run_returned' = FALSE /\ run_result' = NoStack
    /\ execution_order' = <<>> /\ cleanup_log' = <<>> /\ spawn_log' = <<>>
    /\ free_log' = <<>>
    /\ entry_returned' = [s \in StrandIds |-> [done |-> FALSE, stack |-> NoStack]]
    /\ last_call' = NoApiCall
    /\ UNCHANGED <<platform, io_buf, io_entry, dispatch_count, yield_count,
                   cstack_vars, sched_vars, strand_vars, io_vars, io_initialized,
                   error, queue_trace>>

NextApi ==
    \/ scheduler_init
    \/ scheduler_shutdown
    \/ next_test
    \/ \E e \in ApiEntryFuncs \cup {""} : \E v \in SpawnStacks(e) : strand_spawn(e, v)
    \/ \E fn \in OutsideCalls : CallOutsideStrand(fn)
    \/ \E v \in ApiStacks : test_yield(v)
    \/ scheduler_run_enter
    \/ Dispatch
    \/ ReactorWait
    \/ Reap
    \/ scheduler_run_exit
    \/ record
    \/ strand_push_cleanup
    \/ strand_pop_cleanup
    \/ strand_update_cleanup_arg
    \/ strand_block_on("read")
    \/ strand_block_on("write")
    \/ strand_entry_trampoline
    \/ FdBecomesReady(STDIN_FILENO, "read")

SpecApi == Init /\ [][NextApi]_vars

\* The diagnostics of the calls made without what they need.
MisuseErrors ==
    {NotInitializedError(fn) : fn \in OutsideCalls \cup {"strand_spawn", "scheduler_run"}}
    \cup {NoCurrentStrandError(fn) : fn \in OutsideCalls}
    \cup {"strand_pop_cleanup: no cleanup handlers to pop",
          "strand_update_cleanup_arg: no cleanup handlers to update",
          "strand_push_cleanup: cleanup function cannot be NULL",
          "strand_block_on_read: invalid file descriptor",
          "strand_block_on_write: invalid file descriptor",
          "strand_spawn: entry_func is NULL"}

\* The running strand is at a call with an invalid argument: pop or update
\* with an empty cleanup list, push of a NULL function, block on fd < 0.
InStrandMisuse ==
    /\ Running
    /\ \/ /\ CurOp.op \in {"pop_cleanup", "update_cleanup_arg"}
          /\ cleanup_handlers[current_strand] = <<>>
       \/ CurOp.op = "push_cleanup" /\ CurOp.func = ""
       \/ CurOp.op \in {"block_on_read", "block_on_write"} /\ CurOp.v < 0

\* The step is one of the strand (not of the environment).
StrandActs == pc' # pc \/ ip' # ip \/ state' # state

\* The step is a call of OutsideCalls made outside any strand.
OutsideCallMade == last_call' # last_call /\ last_call'.op \in OutsideCalls

\* C24: a call of strand_yield, strand_block_on_read/write,
\* strand_push_cleanup, strand_pop_cleanup or strand_update_cleanup_arg with
\* no current strand, a pop or update on an empty cleanup list, a push of a
\* NULL function and a block on fd < 0 all end the process with a diagnostic;
\* and every such diagnostic (also that of strand_spawn with a NULL entry and
\* of any of these calls or scheduler_run on an uninitialised scheduler) comes
\* before any change to the queues, the current strand, the state of a strand
\* or a cleanup list.
C24_MisuseIsFatalFirst ==
    [][/\ ((InStrandMisuse /\ StrandActs) \/ OutsideCallMade)
            => (pc' = "fatal" /\ error' \in MisuseErrors)
       /\ (error = "" /\ error' \in MisuseErrors)
            => (pc' = "fatal" /\ UNCHANGED <<sched_vars, strand_vars, subs>>)]_vars

\* A running strand that holds a cleanup handler called strand_block_on_read
\* with fd = -1: the process ended, the strand still RUNNING with its handler.
C24_Witness ==
    /\ pc = "fatal"
    /\ error = "strand_block_on_read: invalid file descriptor"
    /\ current_strand # NULL
    /\ state[current_strand] = "RUNNING"
    /\ cleanup_handlers[current_strand] # <<>>
    /\ blocked_fd[current_strand] = -1

\* C25: scheduler_init on an initialised scheduler ends the process and
\* changes nothing; scheduler_shutdown on a scheduler that is not initialised
\* changes nothing at all (so shutting down twice is shutting down once); and
\* scheduler_init after a shutdown starts from the empty state (no strand, an
\* empty ready queue and blocked list, no current strand, no registration),
\* with 1 the id of the next strand spawned.
C25_InitShutdownCycle ==
    [][/\ (scheduler_init /\ scheduler_initialized)
            => (pc' = "fatal" /\ UNCHANGED <<sched_vars, strand_vars, io_vars>>)
       /\ (scheduler_shutdown /\ ~scheduler_initialized)
            => UNCHANGED <<sched_vars, strand_vars, io_vars, io_initialized,
                           error, log_vars, cstack_vars, api_vars>>
       /\ (scheduler_init /\ ~scheduler_initialized)
            => /\ scheduler_initialized'
               /\ ready_queue_is_empty' /\ blocked_list' = NULL
               /\ current_strand' = NULL
               /\ live' = {} /\ subs' = {}
               /\ next_strand_id' = 1
       /\ (SpawnStep /\ spawn_log = <<>>)
            => (next_strand_id = 1 /\ live' = {1})]_vars

\* The caller has been through two shutdowns, initialised the scheduler again
\* and spawned its first strand, which has id 1.
C25_Witness ==
    /\ cycle = 2
    /\ pc = "caller"
    /\ scheduler_initialized
    /\ Len(spawn_log) = 1
    /\ live = {1} /\ next_strand_id = 2
    /\ ReadySeq = <<1>>

\* C30: test_yield(stack) called with no current strand returns the stack it
\* was given, changes nothing of the scheduler and raises no fatal error
\* (not that of a yield outside a strand either); called by a running strand
\* it does exactly one strand_yield (the strand becomes YIELDED at the tail of
\* the ready queue and the scheduler takes over) and leaves the strand's
\* stack value as it was, the value it returns once the strand is resumed.
C30_TestYield ==
    [][/\ ((\E v \in ApiStacks : test_yield(v)) /\ current_strand = NULL)
            => /\ pc' = pc /\ error' = error
               /\ last_call'.op = "test_yield"
               /\ last_call'.result = last_call'.arg
               /\ UNCHANGED <<sched_vars, strand_vars, io_vars, yield_count>>
       /\ (Running /\ CurOp.op = "test_yield" /\ StrandActs)
            => LET s == current_strand IN
               /\ yield_count'[s] = yield_count[s] + 1
               /\ state'[s] = "YIELDED"
               /\ ReadySeq' = Append(ReadySeq, s)
               /\ current_strand' = NULL /\ pc' = "sched"
               /\ local_stack'[s] = local_stack[s]
               /\ ip'[s] = ip[s] + 1]_vars

\* A strand spawned with a value on its stack has called test_yield, was
\* resumed after its one yield and runs on with the same stack; before, the
\* caller had called test_yield outside any strand and got its stack back.
C30_Witness ==
    /\ last_call = [op |-> "test_yield", arg |-> <<"v">>, result |-> <<"v">>]
    /\ Running
    /\ entry_func[current_strand] = "strand_test_yield"
    /\ ip[current_strand] = 3
    /\ yield_count[current_strand] = 1
    /\ dispatch_count[current_strand] = 2
    /\ local_stack[current_strand] = <<"v">>

\* Strand s is suspended inside write_line or read_line.
SuspendedInIo(s) ==
    /\ s \in live
    /\ io_left[s] # 0
    /\ state[s] \in {"BLOCKED_READ", "BLOCKED_WRITE", "READY"}

\* The cleanup list strand s had when the write_line or read_line it is in
\* (or is about to make) began.
ListAtEntry(s) == IF io_left[s] = 0 THEN cleanup_handlers[s] ELSE io_entry[s]

\* The running strand returns from write_line or read_line in this step.
IoReturns ==
    /\ Running /\ CurOp.op \in {"write_line", "read_line"}
    /\ ip'[current_strand] = ip[current_strand] + 1

\* The times free(buffer) of strand s is among the invocations of the step.
FreedBy(s, buffer) ==
    Cardinality({i \in 1..Len(AddedInvocations) :
                    AddedInvocations[i] =
                       [strand |-> s, func |-> "free", arg |-> buffer]})

\* C26: wherever write_line or read_line has suspended a strand, the buffer
\* in flight is the argument of the handler at the head of the strand's
\* cleanup list (also after read_line has moved the buffer), so a shutdown
\* that destroys the suspended strand calls free on that buffer exactly
\* once; and when write_line or read_line returns, the cleanup list is
\* exactly the list at entry, the operation holds no buffer any more (freed,
\* or owned by the pushed string) and no handler is left for it.
C26_BufferOwnedByHeadHandler ==
    [][/\ \A s \in StrandIds :
             SuspendedInIo(s)' =>
                /\ io_buf'[s] # NULL
                /\ cleanup_handlers'[s] # <<>>
                /\ Head(cleanup_handlers'[s]) = [func |-> "free", arg |-> io_buf'[s]]
                /\ Tail(cleanup_handlers'[s]) = io_entry'[s]
       /\ ShutdownStep =>
             \A s \in HeldStrands :
                SuspendedInIo(s) => FreedBy(s, io_buf[s]) = 1
       /\ IoReturns =>
             LET s == current_strand
                 buffer == IF io_left[s] = 0 THEN BufferOf(s) ELSE io_buf[s]
             IN /\ cleanup_handlers'[s] = ListAtEntry(s)
                /\ io_buf'[s] = NULL
                /\ \A i \in 1..Len(cleanup_handlers'[s]) :
                      cleanup_handlers'[s][i] # [func |-> "free", arg |-> buffer]
      ]_vars

\* A strand blocked in read_line whose buffer realloc has moved: the head
\* handler frees the new buffer.
C26_Witness ==
    \E s \in live :
       /\ state[s] = "BLOCKED_READ"
       /\ io_buf[s] = Realloc(BufferOf(s))
       /\ Head(cleanup_handlers[s]) = [func |-> "free", arg |-> io_buf[s]]

\* addr lies in the guard page of the stack described by meta.
InGuardPage(addr, meta) ==
    /\ meta # NoMeta
    /\ meta.base <= addr /\ addr < meta.base + meta.guard_page_size

\* A SIGSEGV was taken in this step.
FaultTaken == fault' # fault

YieldEntries == {YieldingStrand[n + 1] : n \in 0..MaxYields}

NextYield ==
    \/ scheduler_init
    \/ /\ next_strand_id <= 1
       /\ \E e \in YieldEntries, v \in ApiStacks : strand_spawn(e, v)
    \/ scheduler_run_enter
    \/ Dispatch
    \/ strand_yield
    \/ strand_entry_trampoline
    \/ Reap
    \/ scheduler_run_exit
    \/ scheduler_shutdown

SpecYield == Init /\ [][NextYield]_vars /\ WF_vars(NextYield)

\* C27: a single strand that calls strand_yield n times and then returns its
\* initial stack: when scheduler_run returns, the strand has made its n
\* yields and was dispatched n + 1 times, and the value returned is the stack
\* it was spawned with; and once the scheduler runs with the strand, it does
\* return.
C27_YieldNDispatches ==
    /\ [][(pc = "completed" /\ pc' = "returned") =>
             LET s == current_strand IN
             /\ s = 1
             /\ yield_count[s] = YieldsOf(spawn_log[1].entry)
             /\ dispatch_count[s] = yield_count[s] + 1
             /\ run_result' = spawn_log[1].stack]_vars
    /\ (pc = "sched" /\ live # {}) ~>
          (/\ run_returned /\ pc = "returned"
           /\ Len(spawn_log) = 1
           /\ run_result = spawn_log[1].stack
           /\ yield_count[1] = YieldsOf(spawn_log[1].entry)
           /\ dispatch_count[1] = yield_count[1] + 1)

\* scheduler_run has returned the stack <<"v">> of a strand that yielded three
\* times and was dispatched four times.
C27_Witness ==
    /\ run_returned /\ pc = "returned"
    /\ Len(spawn_log) = 1
    /\ spawn_log[1].entry = YieldingStrand[4]
    /\ spawn_log[1].stack = <<"v">>
    /\ run_result = <<"v">>
    /\ yield_count[1] = 3 /\ dispatch_count[1] = 4

\* ------------------------------------------- strands with large local buffers
\* test_basic_strand.c: strands whose entry function has a local buffer of 64
\* bytes to 6 KiB and touches its first and last byte.
LocalsEntries ==
    {"strand_small_locals", "strand_medium_locals", "strand_large_locals",
     "strand_xlarge_locals", "strand_huge_locals"}

\* The lowest stack address the running strand s uses at its "locals" call:
\* the buffer and the frames of the calls it makes lie below the stack pointer
\* it was resumed with.
LocalsLowest(s) == context[s].sp - (CurOp.v + SuspendedFrameBytes)

LocalsFit(s) == LocalsLowest(s) >= stack_meta[s].usable_base

\* The entry function uses its buffer and the stack holds it.
strand_locals ==
    /\ Running /\ CurOp.op = "locals"
    /\ LocalsFit(current_strand)
    /\ Advance(current_strand)
    /\ UNCHANGED <<platform, api_vars, cstack_vars, pc, sched_vars, live, state, stack,
                   cleanup_handlers, blocked_fd, next, entry_func, stack_meta,
                   local_stack, io_left, io_vars, io_initialized, run_returned,
                   run_result, error, log_vars>>

\* The entry function moves its stack pointer below the usable region and
\* touches the buffer there: SIGSEGV, and stack_sigsegv_handler.
strand_locals_fault(base) ==
    /\ Running /\ CurOp.op = "locals"
    /\ ~LocalsFit(current_strand)
    /\ stack_sigsegv_handler(current_strand, LocalsLowest(current_strand),
                             LocalsLowest(current_strand), base)

NextLocals ==
    \/ scheduler_init
    \/ \E e \in LocalsEntries : strand_spawn(e, NoStack)
    \/ scheduler_run_enter
    \/ Dispatch
    \/ strand_locals
    \/ \E base \in mmap(stack_meta) : strand_locals_fault(base)
    \/ strand_entry_trampoline
    \/ Reap
    \/ scheduler_run_exit
    \/ scheduler_shutdown

SpecLocals == Init /\ [][NextLocals]_vars

\* The step dispatches strand s for the first time.
FirstDispatch(s) ==
    /\ pc = "sched" /\ pc' = "strand" /\ current_strand' = s
    /\ dispatch_count[s] = 0

\* The running strand is at the use of a local buffer of at most 6 KiB and
\* the step is the strand's.
LocalsStep ==
    /\ Running /\ CurOp.op = "locals" /\ CurOp.v <= 6 * 1024
    /\ (pc' # pc \/ ip' # ip \/ fault' # fault)

\* C28 as stated: the checkpoint before a strand's first dispatch leaves it at
\* least 8 KiB of usable stack, so a freshly spawned strand that needs up to
\* 6 KiB of stack for its locals completes without touching the guard page.
C28_SixKLocalsFit ==
    [][/\ \A s \in StrandIds :
             FirstDispatch(s) => stack_meta'[s].usable_size >= 8 * 1024
       /\ LocalsStep =>
             /\ ip'[current_strand] = ip[current_strand] + 1
             /\ fault' = fault /\ pc' = "strand"]_vars

\* C28, amended: the checkpoint before a strand's first dispatch leaves it at
\* least 8 KiB of usable stack unless the growth it needed was refused (the
\* mapping of the new stack failed), in which case the stack is as it was and
\* the strand is dispatched all the same; a strand with at least 8 KiB usable
\* that needs up to 6 KiB for its locals completes its use of them without
\* touching the guard page; one whose locals do not fit the stack it was left
\* with runs into the guard page and the process ends by SIGSEGV.
C28_SixKLocalsFitIfGrown ==
    [][/\ \A s \in StrandIds :
             FirstDispatch(s) =>
                \/ stack_meta'[s].usable_size >= 8 * 1024
                \/ /\ NeedGrowth(stack_meta[s], context[s].sp)
                   /\ stack_meta'[s] = stack_meta[s]
       /\ (LocalsStep /\ stack_meta[current_strand].usable_size >= 8 * 1024) =>
             /\ ip'[current_strand] = ip[current_strand] + 1
             /\ fault' = fault /\ pc' = "strand"
       /\ (LocalsStep /\ ~LocalsFit(current_strand)) =>
             (pc' = "fatal" /\ error' = "SIGSEGV")]_vars

\* A strand with 6 KiB of locals, spawned on a 4 KiB stack, has been
\* dispatched once on a stack grown to 8 KiB and is past the use of its
\* buffer, with no fault taken.
C28_Witness ==
    /\ platform = "epoll"
    /\ Running
    /\ entry_func[current_strand] = "strand_huge_locals"
    /\ ip[current_strand] = 2
    /\ dispatch_count[current_strand] = 1
    /\ stack_meta[current_strand].usable_size = 8 * 1024
    /\ stack_meta[current_strand].growth_count = 1
    /\ fault = NoFault

\* ------------------------------------------------------------------ C31
\* The running strand s, woken before and retrying its read or write, blocks
\* again.
ReblockStep(s) ==
    /\ Running /\ current_strand = s
    /\ io_left[s] > 0
    /\ state[s] = "RUNNING"
    /\ state'[s] \in {"BLOCKED_READ", "BLOCKED_WRITE"}

\* No other strand has a registration on descriptor fd.
SoleUser(s, fd) == \A r \in subs : r.fd = fd => r.strand = s

\* C31: a strand that was woken by the reactor, retries its I/O and blocks
\* again on the same descriptor and direction is registered again
\* successfully (no fatal error, an armed one-shot registration carrying the
\* strand, the strand in the blocked set), whatever the number of rounds;
\* stated for a descriptor no other strand is registered on.
C31_ReblockRegistered ==
    [][\A s \in StrandIds :
          ReblockStep(s) /\ SoleUser(s, blocked_fd'[s])
          => /\ error' = ""
             /\ \E r \in subs' :
                   r.strand = s /\ r.fd = blocked_fd'[s] /\ r.armed
             /\ s \in BlockedSet']_vars

\* ------------------------------------------------------------------ C32
\* The running strand s calls strand_block_on_read / strand_block_on_write
\* with a valid descriptor.
BlockStep(s) ==
    /\ Running /\ current_strand = s
    /\ state[s] = "RUNNING"
    /\ state'[s] \in {"BLOCKED_READ", "BLOCKED_WRITE"}

\* The filter and descriptor of the blocking call write_line / read_line makes.
BlockFilter == IF CurOp.op = "write_line" THEN "write" ELSE "read"

BlockFd == IF CurOp.op = "write_line" THEN STDOUT_FILENO ELSE STDIN_FILENO

\* C32: a blocking call with fd >= 0 and a current strand sets the state to
\* BLOCKED_READ / BLOCKED_WRITE, records fd in blocked_fd, registers a
\* one-shot subscription keyed by the strand, inserts the strand in the
\* blocked set, clears the current strand and switches to the scheduler, in
\* that order: a call stopped by a failed registration has done the first two
\* only. When the strand is next resumed its blocked_fd is -1 again.
C32_BlockSequence ==
    [][\A s \in StrandIds :
          /\ BlockStep(s) =>
                /\ state'[s] = BlockedState(BlockFilter)
                /\ blocked_fd'[s] = BlockFd /\ BlockFd >= 0
                /\ IF error' = ""
                   THEN /\ Sub(BlockFd, BlockFilter, s) \in subs'
                        /\ blocked_list' = s
                        /\ s \in BlockedSet'
                        /\ current_strand' = NULL
                        /\ pc' = "sched"
                   ELSE /\ subs' = subs
                        /\ s \notin BlockedSet'
                        /\ current_strand' = s
          /\ (state[s] # "RUNNING" /\ state'[s] = "RUNNING")
                => blocked_fd'[s] = -1]_vars

\* A strand that blocked in write_line or read_line has been resumed and is
\* running again inside that call.
C32_Witness ==
    \E s \in StrandIds :
       /\ Running /\ current_strand = s
       /\ error = ""
       /\ io_left[s] > 0
       /\ dispatch_count[s] >= 2
       /\ blocked_fd[s] = -1

\* ------------------------------------------------------------------ C33
\* scheduler_run switches into a strand.
ResumeStep == pc # "strand" /\ pc' = "strand"

\* The stack of strand s after the step is what one checkpoint on its saved
\* stack pointer leaves: unchanged, or grown once to twice the usable size.
OneCheckpoint(s) ==
    \/ /\ stack_meta'[s] = stack_meta[s]
       /\ context'[s] = context[s]
    \/ /\ NeedGrowth(stack_meta[s], SavedSp(s))
       /\ stack_meta'[s].growth_count = stack_meta[s].growth_count + 1
       /\ stack_meta'[s].usable_size = RoundUpToPage(2 * stack_meta[s].usable_size)
       /\ stack_get_used(stack_meta'[s], context'[s].sp)
             = stack_get_used(stack_meta[s], SavedSp(s))

\* C33: every resume of a strand by scheduler_run, the first dispatch
\* included, comes with: the strand taken from the head of the ready queue,
\* marked RUNNING, made the current strand, and exactly one
\* stack_check_and_grow checkpoint on its saved stack pointer.
C33_ResumeSequence ==
    [][ResumeStep =>
          /\ pc = "sched"
          /\ ReadySeq # <<>>
          /\ LET s == ReadySeq[1] IN
                /\ ReadySeq' = Tail(ReadySeq)
                /\ state'[s] = "RUNNING"
                /\ current_strand' = s
                /\ OneCheckpoint(s)
                /\ \A o \in StrandIds \ {s} :
                      stack_meta'[o] = stack_meta[o] /\ state'[o] = state[o]]_vars

\* A strand at its first dispatch whose checkpoint grew the stack, while
\* another strand waits in the ready queue.
C33_Witness ==
    \E s \in StrandIds :
       /\ Running /\ current_strand = s
       /\ dispatch_count[s] = 1 /\ ip[s] = 1
       /\ stack_meta[s].growth_count = 1
       /\ ReadySeq # <<>>

\* ------------------------------------------------------------------ C34
\* The strands a step wakes: blocked before it, READY after it.
WokenSet ==
    {s \in StrandIds : /\ state[s] \in {"BLOCKED_READ", "BLOCKED_WRITE"}
                       /\ state'[s] = "READY"}

\* The strands of the events of batch b, in delivery order.
DeliveryOrder(b) == [i \in 1..Len(b) |-> b[i].strand]

\* The scheduler is at the top of its loop with nothing ready and something
\* blocked: the iteration that waits on the reactor.
WaitIteration == pc = "sched" /\ ready_queue_is_empty /\ blocked_list # NULL

\* C34: scheduler_run waits on the reactor only in an iteration where the
\* ready queue is empty and the blocked set is not, so while a strand is
\* ready no blocked strand is woken, even with its descriptor ready. For every
\* order in which a wait can deliver its events, each strand of an event
\* leaves the blocked set and the ready queue then holds the woken strands in
\* delivery order, which is the order they are dispatched in; a wait leaves
\* every woken strand READY, queued and out of the blocked set.
C34_WaitOnlyWhenIdle ==
    [][/\ WokenSet # {} => WaitIteration
       /\ ~ready_queue_is_empty => WokenSet = {}
       /\ WaitIteration =>
             \A b \in Batches :
                LET q == WakeLinks(Links, b, 1) IN
                /\ ListFrom(q.head, q.next, MaxStrands + 1) = DeliveryOrder(b)
                /\ \A i \in 1..Len(b) :
                      b[i].strand \notin
                         SeqToSet(ListFrom(q.blocked, q.next, MaxStrands + 1))
       /\ WokenSet # {} =>
             /\ \E b \in Batches : ReadySeq' = DeliveryOrder(b)
             /\ SeqToSet(ReadySeq') = WokenSet
             /\ BlockedSet' = BlockedSet \ WokenSet]_vars

\* One wait has delivered two events: two strands woken inside their I/O
\* calls stand in the ready queue.
C34_Witness ==
    /\ pc = "sched"
    /\ Len(ReadySeq) = 2
    /\ \A i \in 1..2 : /\ state[ReadySeq[i]] = "READY"
                       /\ dispatch_count[ReadySeq[i]] >= 1
                       /\ io_left[ReadySeq[i]] > 0

\* ------------------------------------------------------------------ C35
\* The growth condition as the claim words it.
FreeBelowMinimum(meta, sp) == stack_get_free(meta, sp) < 8192

UsedAboveThreshold(meta, sp) ==
    stack_get_used(meta, sp) > (meta.usable_size * 75) \div 100

\* The stack of strand 1 is replaced by a larger one.
Replaced ==
    /\ stack_meta'[1] # stack_meta[1]
    /\ stack_meta'[1].usable_size > stack_meta[1].usable_size

C36_MinFreeAtResume ==
    [][ResumeStep =>
          LET s == current_strand'
              needed == NeedGrowth(stack_meta[s], SavedSp(s))
              succeeded == stack_meta'[s] # stack_meta[s]
          IN (~needed \/ succeeded)
             => stack_get_free(stack_meta'[s], context'[s].sp)
                   >= CEM_MIN_FREE_STACK]_vars

\* ------------------------------------------------------------------ C37
\* The scheduler loop leaves its top with a strand in the ready queue.
LeavesLoopTop == pc = "sched" /\ ~ready_queue_is_empty /\ pc' # pc

\* C37: when the checkpoint decides that growth is needed but stack_grow
\* fails (the mapping of the new stack fails, or the doubled size exceeds
\* CEM_MAX_STACK_SIZE), scheduler_run still resumes the strand, on its
\* unchanged stack: nothing ends the scheduler, and the strand is taken from
\* the head of the ready queue and made RUNNING as at any other dispatch,
\* with no other strand's state or place changed. A stack of the maximum size
\* put through the same checkpoint comes back unchanged with result false.
C37_FailedGrowthStillResumes ==
    [][LeavesLoopTop =>
          LET s == ReadySeq[1]
              needed == NeedGrowth(stack_meta[s], SavedSp(s))
              grown == stack_meta'[s].usable_size > stack_meta[s].usable_size
              largest == [stack_meta[s] EXCEPT
                             !.usable_size = CEM_MAX_STACK_SIZE,
                             !.total_size = CEM_MAX_STACK_SIZE
                                               + stack_meta[s].guard_page_size]
              deep == [sp |-> largest.usable_base + SuspendedFrameBytes,
                       x29 |-> largest.usable_base + SuspendedFrameBytes]
          IN /\ pc' = "strand" /\ error' = ""
             /\ (needed /\ ~grown) =>
                   /\ stack_meta'[s] = stack_meta[s]
                   /\ context'[s] = context[s]
                   /\ mem' = mem
                   /\ state'[s] = "RUNNING" /\ current_strand' = s
                   /\ ReadySeq' = Tail(ReadySeq)
                   /\ BlockedSeq' = BlockedSeq
                   /\ \A o \in StrandIds \ {s} : state'[o] = state[o]
             /\ NeedGrowth(largest, deep.sp)
             /\ stack_check_and_grow(largest, deep, mem, MmapFirstFit(stack_meta))
                   = [result |-> "false", meta |-> largest, context |-> deep,
                      mem |-> mem]]_vars

\* A strand runs after its first dispatch on the 4 KiB stack it was spawned
\* with: the checkpoint needed growth and the growth failed.
C37_Witness ==
    \E s \in StrandIds :
       /\ Running /\ current_strand = s
       /\ error = ""
       /\ dispatch_count[s] = 1
       /\ stack_meta[s].growth_count = 0
       /\ stack_meta[s].usable_size = CEM_INITIAL_STACK_SIZE
       /\ stack_get_free(stack_meta[s], context[s].sp) < CEM_MIN_FREE_STACK

\* ------------------------------------------------------------------ C38
\* How many times strand s stands in the sequence q.
Count(q, s) == Cardinality({i \in 1..Len(q) : q[i] = s})

\* The number of places strand s is held in.
Places(s) ==
    (IF current_strand = s THEN 1 ELSE 0) + Count(ReadySeq, s)
       + Count(BlockedSeq, s)

\* C38: in every reachable state each live strand is in exactly one place
\* (current strand, ready queue or blocked set) and stands there once; a wait
\* never puts a strand in the ready queue twice, and no strand is in the
\* ready queue and the blocked set together, the two sharing its link field.
C38_OnePlace ==
    /\ \A s \in live : Places(s) = 1
    /\ ReadySet \cap BlockedSet = {}
    /\ ReadySet \cup BlockedSet \subseteq live
    /\ Len(ReadySeq) <= MaxStrands /\ Len(BlockedSeq) <= MaxStrands
    /\ ready_queue_head = NULL <=> ready_queue_tail = NULL
    /\ ready_queue_tail # NULL => ReadySeq[Len(ReadySeq)] = ready_queue_tail

\* Three live strands: one running, one ready, one blocked.
C38_Witness ==
    /\ Cardinality(live) = 3
    /\ Running
    /\ Len(ReadySeq) = 1
    /\ Len(BlockedSeq) = 1

\* ------------------------------------------------------------------ C39
\* The states the strands of the two collections are in.
QueuedStates ==
    /\ \A s \in BlockedSet : /\ state[s] \in {"BLOCKED_READ", "BLOCKED_WRITE"}
                             /\ blocked_fd[s] >= 0
    /\ \A s \in ReadySet : state[s] \in {"READY", "YIELDED"}
    /\ \A s \in StrandIds :
          state[s] = "COMPLETED" => s \notin ReadySet \cup BlockedSet

\* The running strand hands control back to scheduler_run.
ReturnsControl == pc = "strand" /\ pc' \in {"sched", "completed"}

\* C39: in every reachable state every strand of the blocked set is
\* BLOCKED_READ or BLOCKED_WRITE with blocked_fd >= 0, every strand of the
\* ready queue is READY or YIELDED, and no COMPLETED strand is in either; a
\* dispatched strand that returns control is COMPLETED, YIELDED, BLOCKED_READ
\* or BLOCKED_WRITE, so the loop's "unexpected state" branch is never taken.
C39_StatesByPlace ==
    [][/\ QueuedStates /\ QueuedStates'
       /\ ReturnsControl =>
             state'[current_strand] \in
                {"COMPLETED", "YIELDED", "BLOCKED_READ", "BLOCKED_WRITE"}
       /\ error' # "scheduler_run: strand in unexpected state after context switch"
      ]_vars

\* Back in the scheduler with a blocked strand, a spawned strand that is
\* READY and a strand that yielded.
C39_Witness ==
    /\ pc = "sched"
    /\ BlockedSet # {}
    /\ \E s \in ReadySet : state[s] = "READY"
    /\ \E s \in ReadySet : state[s] = "YIELDED"

\* ------------------------------------------------------------------ C40
\* The calls of kind op the log holds for strand s.
FreesOf(op, s) ==
    Cardinality({i \in 1..Len(free_log) :
                    free_log[i] = [op |-> op, strand |-> s]})

\* An entry function that pops no handler of its own and changes no argument.
KeepsHandlers(body) ==
    \A i \in 1..Len(body) : body[i].op \notin {"pop_cleanup", "update_cleanup_arg"}

\* scheduler_run returned the final value stack of strand s.
ReturnedStackOf(s) ==
    s = 1 /\ run_result # NoStack /\ run_result = entry_returned[s].stack

\* C40: when scheduler_run returns the current strand is none and every
\* strand spawned before or during the run has been freed exactly once, its
\* cleanup handlers run; the final value stack of each strand has been
\* returned by scheduler_run or freed once, never both and never twice.
C40_AllFreedAtReturn ==
    pc = "returned" =>
       /\ current_strand = NULL
       /\ live = {}
       /\ \A s \in 1..Len(spawn_log) :
             LET body == EntryBody(spawn_log[s].entry) IN
             /\ FreesOf("strand_free", s) = 1
             /\ cleanup_handlers[s] = <<>>
             /\ KeepsHandlers(body) => InvokedFor(s) = ExpectedLifo(s, body)
             /\ entry_returned[s].done
             /\ FreesOf("free_stack", s) <= 1
             /\ entry_returned[s].stack # NoStack =>
                   (ReturnedStackOf(s) <=> FreesOf("free_stack", s) = 0)
             /\ entry_returned[s].stack = NoStack =>
                   FreesOf("free_stack", s) = 0
       /\ Len(free_log) <= 2 * Len(spawn_log)

\* scheduler_run has returned NULL after three strands, one spawned during the
\* run; the first of them left a value stack, which was freed.
C40_Witness ==
    /\ pc = "returned"
    /\ Len(spawn_log) = 3
    /\ \E s \in 1..3 : spawn_log[s].parent # NULL
    /\ entry_returned[1].stack # NoStack
    /\ FreesOf("free_stack", 1) = 1
    /\ run_result = NoStack

====
